---- MODULE Spec2Model ----
(***************************************************************************)
(* A model of the leaderboard generator: the schema validator              *)
(* (lib/config-validator.js, lib/schema.js), the datastore merge and the   *)
(* page generation (lib/file-generator.js), the navigation updater         *)
(* (lib/navigation-updater.js) and the entry points that sequence them     *)
(* (index.js, the chat backend's leaderboard route and service).           *)
(*                                                                         *)
(* JSON values are tagged records:                                         *)
(*   [t |-> "str", s |-> "..."]      a string                              *)
(*   [t |-> "num", n |-> k, int |-> b]  the number k (b) or k + 1/2 (~b)   *)
(*   [t |-> "bool", b |-> ...]       a boolean                             *)
(*   [t |-> "arr", a |-> <<...>>]    an array                              *)
(*   [t |-> "obj", o |-> [k |-> v]]  an object, o a record of its members  *)
(* An instance path is the sequence of the keys of a JSON pointer, array   *)
(* indices written as the strings "0", "1", ...                            *)
(***************************************************************************)
EXTENDS Integers, Sequences, FiniteSets, TLC

\* ------------------------------------------------------------------ bounds
\* How many edits the validator's input may be away from a base config.
MaxEdits == 2

\* The longest link list a page of the site starts with.
MaxLinks == 4

\* How many directories below leaderboard/ a page may lie.
MaxDepth == 2

\* How many times navigation sync is run.
MaxSyncs == 2

\* navigation.position is drawn from -MaxBack..MaxPosition.
MaxBack == 5

MaxPosition == 1

\* How many days pass while the datastore runs are observed.
MaxDays == 1

\* formatting.thresholds holds at most MaxThresholds thresholds.
MaxThresholds == 2

\* An axis has at most MaxTicks ticks and at most MaxTicks tick labels.
MaxTicks == 2

\* The largest navigation.position a generated page is built with.
MaxGenPosition == 2

\* How many merges into the datastore follow one another.
MaxMerges == 3

\* How many provider instances the LLM service makes.
MaxInstances == 2

\* How many messages are sent to the chat session.
MaxSends == 3

\* ------------------------------------------------------------- JSON values
Str(s) == [t |-> "str", s |-> s]

Num(k) == [t |-> "num", n |-> k, int |-> TRUE]

Half(k) == [t |-> "num", n |-> k, int |-> FALSE]

Bool(b) == [t |-> "bool", b |-> b]

Arr(a) == [t |-> "arr", a |-> a]

Obj(o) == [t |-> "obj", o |-> o]

IsObj(d) == d.t = "obj"

IsArr(d) == d.t = "arr"

IsStr(d) == d.t = "str"

Has(d, k) == IsObj(d) /\ k \in DOMAIN d.o

\* The decimal name of an array index (0-based), as a JSON pointer spells it.
IdxName(i) == <<"0", "1", "2", "3", "4", "5">>[i + 1]

\* A set as a sequence, in some fixed order.
RECURSIVE SetToSeq(_)
SetToSeq(S) ==
  IF S = {} THEN << >>
  ELSE LET x == CHOOSE y \in S : TRUE IN <<x>> \o SetToSeq(S \ {x})

\* ------------------------------------------------------------ lib/schema.js
\* The strings of the model that match ^[a-z0-9_-]+$ .
IdPatternMatches == {"qc-test", "other", "peak_circuits"}

stringSchema == [type |-> "string"]

numberSchema == [type |-> "number"]

axisSchema ==
  [type |-> "object",
   required |-> <<"field", "label">>,
   properties |->
     [field |-> stringSchema, label |-> stringSchema,
      min |-> numberSchema, max |-> numberSchema,
      ticks |-> [type |-> "array", items |-> numberSchema],
      tickLabels |-> [type |-> "array", items |-> stringSchema]]]

columnSchema ==
  [type |-> "object",
   required |-> <<"id", "name", "type">>,
   properties |->
     [id |-> stringSchema, name |-> stringSchema,
      type |-> [type |-> "string",
                enum |-> {"number", "text", "percentage", "time", "hardware"}],
      width |-> stringSchema, className |-> stringSchema,
      sortable |-> [type |-> "boolean"], defaultSort |-> [type |-> "boolean"],
      sortDirection |-> [type |-> "string", enum |-> {"asc", "desc"}],
      formatting |->
        [type |-> "object",
         properties |->
           [thresholds |->
              [type |-> "array",
               items |-> [type |-> "object",
                          required |-> <<"value", "class">>,
                          properties |-> [value |-> numberSchema,
                                          class |-> stringSchema]]]]]]]

categorySchema ==
  [type |-> "object",
   required |-> <<"shape", "color", "label">>,
   properties |->
     [shape |-> [type |-> "string", enum |-> {"circle", "square", "triangle"}],
      color |-> stringSchema, label |-> stringSchema]]

visualizationSchema ==
  [type |-> "object",
   required |-> <<"type", "xAxis", "yAxis", "dataPoints">>,
   properties |->
     [type |-> [type |-> "string", enum |-> {"scatter", "bar", "line"}],
      xAxis |-> axisSchema,
      yAxis |-> axisSchema,
      dataPoints |->
        [type |-> "object",
         required |-> <<"categoryField", "categories">>,
         properties |->
           [categoryField |-> stringSchema,
            categories |-> [type |-> "object",
                            additionalProperties |-> categorySchema]]],
      referenceLine |->
        [type |-> "object",
         properties |->
           [x |-> numberSchema, y |-> numberSchema, label |-> stringSchema,
            style |-> [type |-> "string",
                       enum |-> {"solid", "dashed", "dotted"}]]]]]

sectionSchema ==
  [type |-> "object",
   required |-> <<"title", "type">>,
   properties |->
     [title |-> stringSchema,
      type |-> [type |-> "string", enum |-> {"text", "cards", "grid"}],
      content |-> stringSchema,
      cards |-> [type |-> "array",
                 items |-> [type |-> "object",
                            required |-> <<"title", "content">>,
                            properties |-> [title |-> stringSchema,
                                            content |-> stringSchema]]]]]

leaderboardSchema ==
  [type |-> "object",
   required |-> <<"id", "title", "shortDescription", "columns",
                  "visualization", "content">>,
   properties |->
     [id |-> [type |-> "string", pattern |-> "^[a-z0-9_-]+$"],
      title |-> stringSchema,
      shortDescription |-> stringSchema,
      longDescription |-> stringSchema,
      navigation |-> [type |-> "object",
                      properties |-> [position |-> [type |-> "integer"]]],
      initialStats |-> [type |-> "object"],
      columns |-> [type |-> "array", minItems |-> 1, items |-> columnSchema],
      initialEntries |-> [type |-> "array", items |-> [type |-> "object"]],
      visualization |-> visualizationSchema,
      content |-> [type |-> "object",
                   required |-> <<"sections">>,
                   properties |-> [sections |-> [type |-> "array",
                                                 items |-> sectionSchema]]],
      customCss |-> stringSchema]]

\* -------------------------------------------- Ajv, as config-validator uses it
\* One validation error: Ajv's instancePath, keyword and the keyword's
\* parameter (the missing property, the expected type), and its message.
ErrorOf(path, keyword, param) ==
  [instancePath |-> path, keyword |-> keyword, param |-> param,
   message |->
     CASE keyword = "required" -> <<"must have required property", param>>
       [] keyword = "type" -> <<"must be", param>>
       [] keyword = "enum" -> <<"must be equal to one of the allowed values", "">>
       [] keyword = "pattern" -> <<"must match pattern", param>>
       [] keyword = "minItems" -> <<"must NOT have fewer than 1 items", "">>
       [] OTHER -> <<"", "">>]

TypeOk(type, d) ==
  CASE type = "string" -> d.t = "str"
    [] type = "number" -> d.t = "num"
    [] type = "integer" -> d.t = "num" /\ d.int
    [] type = "boolean" -> d.t = "bool"
    [] type = "array" -> d.t = "arr"
    [] type = "object" -> d.t = "obj"
    [] OTHER -> FALSE

\* RequiredErrors as it would be without allErrors: the first missing
\* property ends the check of the object.
RECURSIVE RequiredErrorsFirstOnly(_, _, _, _)
RequiredErrorsFirstOnly(req, d, path, i) ==
  IF i > Len(req) THEN << >>
  ELSE IF req[i] \in DOMAIN d.o
  THEN RequiredErrorsFirstOnly(req, d, path, i + 1)
  ELSE <<ErrorOf(path, "required", req[i])>>

\* The errors for the required properties req[i..] that object d lacks.
RECURSIVE RequiredErrors(_, _, _, _)
RequiredErrors(req, d, path, i) ==
  IF i > Len(req) THEN << >>
  ELSE (IF req[i] \in DOMAIN d.o THEN << >>
        ELSE <<ErrorOf(path, "required", req[i])>>)
       \o RequiredErrors(req, d, path, i + 1)

\* Ajv's compiled validation of data d at instance path `path` against
\* schema s with allErrors: every keyword of the schema is evaluated and
\* every failure is collected.  The keywords are those lib/schema.js uses.
RECURSIVE Validate(_, _, _)
RECURSIVE ValidateItems(_, _, _, _)
RECURSIVE ValidateProps(_, _, _, _)
RECURSIVE ValidateAdditional(_, _, _, _)
Validate(s, d, path) ==
  LET K == DOMAIN s
      typeErrors ==
        IF "type" \in K /\ ~TypeOk(s.type, d)
        THEN <<ErrorOf(path, "type", s.type)>> ELSE << >>
      enumErrors ==
        IF "enum" \in K /\ ~(IsStr(d) /\ d.s \in s.enum)
        THEN <<ErrorOf(path, "enum", "")>> ELSE << >>
      patternErrors ==
        IF "pattern" \in K /\ IsStr(d) /\ d.s \notin IdPatternMatches
        THEN <<ErrorOf(path, "pattern", s.pattern)>> ELSE << >>
      minItemsErrors ==
        IF "minItems" \in K /\ IsArr(d) /\ Len(d.a) < s.minItems
        THEN <<ErrorOf(path, "minItems", "")>> ELSE << >>
      itemsErrors ==
        IF "items" \in K /\ IsArr(d)
        THEN ValidateItems(s.items, d.a, path, 1) ELSE << >>
      requiredErrors ==
        IF "required" \in K /\ IsObj(d)
        THEN RequiredErrors(s.required, d, path, 1) ELSE << >>
      known == IF "properties" \in K THEN DOMAIN s.properties ELSE {}
      additionalErrors ==
        IF "additionalProperties" \in K /\ IsObj(d)
        THEN ValidateAdditional(s.additionalProperties, d, path,
                                SetToSeq(DOMAIN d.o \ known))
        ELSE << >>
      propertiesErrors ==
        IF "properties" \in K /\ IsObj(d)
        THEN ValidateProps(s.properties, d, path,
                           SetToSeq(DOMAIN s.properties \cap DOMAIN d.o))
        ELSE << >>
  IN typeErrors \o enumErrors \o patternErrors \o minItemsErrors
       \o itemsErrors \o requiredErrors \o additionalErrors
       \o propertiesErrors

ValidateItems(s, a, path, i) ==
  IF i > Len(a) THEN << >>
  ELSE Validate(s, a[i], Append(path, IdxName(i - 1)))
       \o ValidateItems(s, a, path, i + 1)

ValidateProps(props, d, path, names) ==
  IF names = << >> THEN << >>
  ELSE Validate(props[Head(names)], d.o[Head(names)],
                Append(path, Head(names)))
       \o ValidateProps(props, d, path, Tail(names))

ValidateAdditional(s, d, path, names) ==
  IF names = << >> THEN << >>
  ELSE Validate(s, d.o[Head(names)], Append(path, Head(names)))
       \o ValidateAdditional(s, d, path, Tail(names))

\* validate as new Ajv() without allErrors would compile it: validation
\* stops at the first error.
validateFailFast(config) ==
  LET errors == Validate(leaderboardSchema, config, << >>) IN
  IF errors = << >> THEN << >> ELSE <<Head(errors)>>

\* ajv.compile(leaderboardSchema) with { allErrors: true }.
validate(config) == Validate(leaderboardSchema, config, << >>)

\* validateConfig: { isValid, errors }, errors null when the config is valid.
validateConfig(config) ==
  LET errors == validate(config) IN
  IF errors # << >>
  THEN [isValid |-> FALSE, errors |-> [null |-> FALSE, list |-> errors]]
  ELSE [isValid |-> TRUE, errors |-> [null |-> TRUE, list |-> << >>]]

\* formatValidationErrors: one "<path>: <message>" line per error, the root
\* path "" printed as "/" (the pointer of the key ""), and '' for none.
formatValidationErrors(errors) ==
  IF errors.null \/ Len(errors.list) = 0 THEN << >>
  ELSE [i \in 1..Len(errors.list) |->
          [path |-> IF errors.list[i].instancePath = << >> THEN <<"">>
                    ELSE errors.list[i].instancePath,
           message |-> errors.list[i].message]]

\* ------------------------------------------------ configurations (inputs)
\* The index an index name spells.
IdxOf(name) == CHOOSE i \in 0..5 : IdxName(i) = name

\* The paths of all members and elements below d.
RECURSIVE PathsOf(_)
PathsOf(d) ==
  IF IsObj(d)
  THEN UNION {{<<k>>} \cup {<<k>> \o p : p \in PathsOf(d.o[k])} : k \in DOMAIN d.o}
  ELSE IF IsArr(d)
  THEN UNION {{<<IdxName(i - 1)>>}
                \cup {<<IdxName(i - 1)>> \o p : p \in PathsOf(d.a[i])}
              : i \in 1..Len(d.a)}
  ELSE {}

\* Whether path leads to a member or element of d.
RECURSIVE Exists(_, _)
Exists(d, path) ==
  IF path = << >> THEN TRUE
  ELSE IF IsObj(d)
  THEN Head(path) \in DOMAIN d.o /\ Exists(d.o[Head(path)], Tail(path))
  ELSE IF IsArr(d)
  THEN Head(path) \in {IdxName(i - 1) : i \in 1..Len(d.a)}
       /\ Exists(d.a[IdxOf(Head(path)) + 1], Tail(path))
  ELSE FALSE

\* The value at an existing path of d.
RECURSIVE Get(_, _)
Get(d, path) ==
  IF path = << >> THEN d
  ELSE IF IsObj(d) THEN Get(d.o[Head(path)], Tail(path))
  ELSE Get(d.a[IdxOf(Head(path)) + 1], Tail(path))

\* d with the value at an existing, non-root path replaced by v.
RECURSIVE Put(_, _, _)
Put(d, path, v) ==
  IF path = << >> THEN v
  ELSE IF IsObj(d)
  THEN Obj([k \in DOMAIN d.o |->
              IF k = Head(path) THEN Put(d.o[k], Tail(path), v) ELSE d.o[k]])
  ELSE Arr([i \in 1..Len(d.a) |->
              IF i = IdxOf(Head(path)) + 1 THEN Put(d.a[i], Tail(path), v)
              ELSE d.a[i]])

\* d without the member or element at an existing, non-root path.
RECURSIVE Remove(_, _)
Remove(d, path) ==
  IF Len(path) = 1
  THEN IF IsObj(d)
       THEN Obj([k \in DOMAIN d.o \ {Head(path)} |-> d.o[k]])
       ELSE Arr([i \in 1..(Len(d.a) - 1) |->
                   IF i < IdxOf(Head(path)) + 1 THEN d.a[i] ELSE d.a[i + 1]])
  ELSE IF IsObj(d)
  THEN Obj([k \in DOMAIN d.o |->
              IF k = Head(path) THEN Remove(d.o[k], Tail(path)) ELSE d.o[k]])
  ELSE Arr([i \in 1..Len(d.a) |->
              IF i = IdxOf(Head(path)) + 1 THEN Remove(d.a[i], Tail(path))
              ELSE d.a[i]])

\* A valid configuration: the README's shape, with one column, one category,
\* a navigation position and one cards section.
BaseConfig ==
  Obj([id |-> Str("qc-test"),
       title |-> Str("QC Test"),
       shortDescription |-> Str("d"),
       navigation |-> Obj([position |-> Num(0)]),
       columns |-> Arr(<<Obj([id |-> Str("rank"), name |-> Str("Rank"),
                              type |-> Str("number")])>>),
       visualization |->
         Obj([type |-> Str("scatter"),
              xAxis |-> Obj([field |-> Str("x"), label |-> Str("X")]),
              yAxis |-> Obj([field |-> Str("y"), label |-> Str("Y")]),
              dataPoints |->
                Obj([categoryField |-> Str("cat"),
                     categories |->
                       Obj([a |-> Obj([shape |-> Str("circle"),
                                       color |-> Str("#000"),
                                       label |-> Str("A")])])])]),
       content |->
         Obj([sections |->
                Arr(<<Obj([title |-> Str("About"), type |-> Str("cards"),
                           cards |-> Arr(<<Obj([title |-> Str("c"),
                                                content |-> Str("t")])>>)])>>)])])

\* Replacements that break one constraint each: a pattern, a type, an enum,
\* minItems, the integer type of navigation.position.
BadReplacements ==
  {<<<<"id">>, Str("Bad Id")>>,
   <<<<"title">>, Num(5)>>,
   <<<<"columns">>, Arr(<< >>)>>,
   <<<<"columns", "0", "type">>, Str("Bad Id")>>,
   <<<<"visualization", "type">>, Num(5)>>,
   <<<<"visualization", "xAxis">>, Str("x")>>,
   <<<<"visualization", "dataPoints", "categories", "a", "shape">>, Str("Bad Id")>>,
   <<<<"navigation", "position">>, Half(2)>>,
   <<<<"content", "sections", "0", "type">>, Str("Bad Id")>>}

\* A replacement the schema has nothing against: the only column gets
\* another id than "rank".
OtherReplacements == {<<<<"columns", "0", "id">>, Str("score")>>}

\* ------------------------------------------------------- HTML documents
\* A document is a sequence of tokens.  The tokens are the pieces of text
\* the updater's two regular expressions and its two String.replace calls
\* can tell apart: the tags of the navigation pattern, one
\* <li><a href=..>text</a></li> item, the two whitespace runs the updater
\* itself writes ("\n" + 12 spaces; 4 more spaces follow it to make the
\* 16-space indentation of an item), another indentation, and any other
\* markup.
NavOpen == [k |-> "<nav class=\"nav\">"]

UlOpen == [k |-> "<ul class=\"nav-links\">"]

UlClose == [k |-> "</ul>"]

NavClose == [k |-> "</nav>"]

Nl12 == [k |-> "\\n + 12 spaces"]

Sp4 == [k |-> "4 spaces"]

Nl8 == [k |-> "\\n + 8 spaces"]

Markup == [k |-> "other markup"]

Li(href, attributes, text) ==
  [k |-> "li", href |-> href, attributes |-> attributes, text |-> text]

\* Link texts with a "<" in them, which [^<]* of the link pattern cannot
\* match, and link texts with "$$" in them, which String.replace writes as
\* a single "$" when they are part of its replacement string.
TextsWithLt == {"A<B"}

Collapse(text) == IF text = "Cost $$" THEN "Cost $" ELSE text

\* A replacement string as String.replace inserts it.
Expand(tokens) ==
  [i \in 1..Len(tokens) |->
     IF tokens[i].k = "li"
     THEN Li(tokens[i].href, tokens[i].attributes, Collapse(tokens[i].text))
     ELSE tokens[i]]

\* The index of the first occurrence of search in s at or after from, 0 if
\* there is none.
FirstIndexOf(s, search, from) ==
  LET hits == {p \in from..(Len(s) - Len(search) + 1) :
                 SubSeq(s, p, p + Len(search) - 1) = search}
  IN IF hits = {} THEN 0 ELSE CHOOSE p \in hits : \A q \in hits : p <= q

\* s.replace(search, replacement) for strings: the first occurrence only,
\* s itself when there is none.
Replace(s, search, replacement) ==
  LET p == FirstIndexOf(s, search, 1) IN
  IF p = 0 THEN s
  ELSE SubSeq(s, 1, p - 1) \o Expand(replacement)
       \o SubSeq(s, p + Len(search), Len(s))

\* ------------------------------------------------ lib/navigation-updater.js
NoMatch == [found |-> FALSE, fullNav |-> << >>, navLinks |-> << >>]

\* findNavigationSection: the first match of
\* <nav class="nav">[\s\S]*?<ul class="nav-links">([\s\S]*?)<\/ul>[\s\S]*?<\/nav>
findNavigationSection(htmlContent) ==
  LET i == FirstIndexOf(htmlContent, <<NavOpen>>, 1)
      j == IF i = 0 THEN 0 ELSE FirstIndexOf(htmlContent, <<UlOpen>>, i + 1)
      k == IF j = 0 THEN 0 ELSE FirstIndexOf(htmlContent, <<UlClose>>, j + 1)
      m == IF k = 0 THEN 0 ELSE FirstIndexOf(htmlContent, <<NavClose>>, k + 1)
  IN IF m = 0 THEN NoMatch
     ELSE [found |-> TRUE,
           fullNav |-> SubSeq(htmlContent, i, m),
           navLinks |-> SubSeq(htmlContent, j + 1, k - 1)]

\* A relative path that climbs one directory from every leaderboard page.
calculateRelativePathOneUp(htmlFile, leaderboardId) ==
  IF Len(htmlFile) = 1 THEN <<"leaderboard", leaderboardId>>
  ELSE <<"..", leaderboardId>>

\* A path is the sequence of its segments, relative to baseDir.
\* calculateRelativePath: the href of the new leaderboard, as segments (the
\* href ends with "/").
calculateRelativePath(htmlFile, leaderboardId) ==
  IF Len(htmlFile) = 1 THEN <<"leaderboard", leaderboardId>>
  ELSE IF htmlFile[1] = "leaderboard"
  THEN [i \in 1..(Len(htmlFile) - 2) |-> ".."] \o <<leaderboardId>>
  ELSE <<"leaderboard", leaderboardId>>

\* htmlFile.includes(`leaderboard/${config.id}/index.html`)
isNewLeaderboard(htmlFile, leaderboardId) ==
  FirstIndexOf(htmlFile, <<"leaderboard", leaderboardId, "index.html">>, 1) # 0

\* The matches of /<li><a href="([^"]*)"([^>]*)>([^<]*)<\/a><\/li>/g, in order.
ParseLinks(navLinks) ==
  LET Matched(tok) == tok.k = "li" /\ tok.text \notin TextsWithLt
      items == SelectSeq(navLinks, Matched)
  IN [i \in 1..Len(items) |->
        [href |-> items[i].href, attributes |-> items[i].attributes,
         text |-> items[i].text]]

\* A splice that takes a negative start for 0.
SpliceFromStart(links, start, item) ==
  LET at == IF start < 0 THEN 0
            ELSE (IF start > Len(links) THEN Len(links) ELSE start)
  IN SubSeq(links, 1, at) \o <<item>> \o SubSeq(links, at + 1, Len(links))

\* links.splice(start, 0, item)
Splice(links, start, item) ==
  LET at == IF start < 0
            THEN (IF Len(links) + start < 0 THEN 0 ELSE Len(links) + start)
            ELSE (IF start > Len(links) THEN Len(links) ELSE start)
  IN SubSeq(links, 1, at) \o <<item>> \o SubSeq(links, at + 1, Len(links))

\* links.findIndex(link => link.text === title), 0-based, -1 for none
FindIndex(links, title) ==
  LET hits == {i \in 1..Len(links) : links[i].text = title}
  IN IF hits = {} THEN -1 ELSE (CHOOSE i \in hits : \A j \in hits : i <= j) - 1

\* A list built without looking for a link of that text.
NewLinksInsertOnly(links, config, relativePath, isActive) ==
  LET newLink == [href |-> relativePath,
                  attributes |-> IF isActive THEN " class=\"active\"" ELSE "",
                  text |-> config.title]
      position == IF config.hasPosition THEN config.position + 4
                  ELSE Len(links)
  IN Splice(links, position, newLink)

\* The list insertNavigationLink builds (its newLinks).  A configuration is
\* seen here as [id, title, hasPosition, position].
NewLinks(links, config, relativePath, isActive) ==
  LET newLink == [href |-> relativePath,
                  attributes |-> IF isActive THEN " class=\"active\"" ELSE "",
                  text |-> config.title]
      position == IF config.hasPosition THEN config.position + 4
                  ELSE Len(links)
      existingIndex == FindIndex(links, config.title)
  IN IF existingIndex # -1
     THEN [links EXCEPT ![existingIndex + 1] = newLink]
     ELSE Splice(links, position, newLink)

\* links.map(link => `<li><a href=...>...</a></li>`).join('\n' + 16 spaces)
RECURSIVE JoinLinks(_)
JoinLinks(links) ==
  IF links = << >> THEN << >>
  ELSE <<Li(links[1].href, links[1].attributes, links[1].text)>>
       \o (IF Len(links) = 1 THEN << >>
           ELSE <<Nl12, Sp4>> \o JoinLinks(Tail(links)))

\* insertNavigationLink: the updated document.
insertNavigationLink(htmlContent, navSection, config, relativePath, isActive) ==
  LET links == ParseLinks(navSection.navLinks)
      newLinks == NewLinks(links, config, relativePath, isActive)
      newNavLinks == JoinLinks(newLinks)
      newNav == Replace(navSection.fullNav, navSection.navLinks,
                        <<Nl12, Sp4>> \o newNavLinks \o <<Nl12>>)
  IN Replace(htmlContent, navSection.fullNav, newNav)

\* --------------------------------------------------------- the site (inputs)
\* The link texts of the site's navigation, in its order: the four baseline
\* links, the existing leaderboard, and further leaderboards.
SiteLinkTexts ==
  <<"Overview", "Confidence Bounds", "Algorithmic Methods",
    "Classical Verification", "Peak Circuits", "Leaderboard 6",
    "Leaderboard 7", "Leaderboard 8">>

SiteLinks(n) ==
  [i \in 1..n |-> [href |-> <<SiteLinkTexts[i]>>,
                   attributes |-> IF i = 1 THEN " class=\"active\"" ELSE "",
                   text |-> SiteLinkTexts[i]]]

\* A page whose list is written the way the updater and the template write it.
CanonicalPage(links) ==
  <<Markup, NavOpen, Markup, Nl12, UlOpen, Nl12, Sp4>> \o JoinLinks(links)
    \o <<Nl12, UlClose, Nl8, NavClose, Markup>>

\* <ul class="nav-links"></ul>
EmptyListPage ==
  <<Markup, NavOpen, Markup, Nl12, UlOpen, UlClose, Nl8, NavClose, Markup>>

\* A list that holds only the indentation of its closing tag.
BlankListPage ==
  <<Markup, NavOpen, Markup, Nl12, UlOpen, Nl12, UlClose, Nl8, NavClose, Markup>>

\* A page without the navigation pattern.
NoNavPage == <<Markup, Nl8, Markup>>

\* A hand-written list: another indentation, and an item that is no link.
HandWrittenPage ==
  <<Markup, NavOpen, Nl8, UlOpen, Nl8,
    Li(<<"Overview">>, " class=\"active\"", "Overview"), Nl8, Markup, Nl8,
    Li(<<"Peak Circuits">>, "", "Peak Circuits"), Nl8, UlClose, NavClose>>

\* A list with two links earlier runs have left: one whose text has "<" in
\* it, one whose text has "$$" in it.
EarlierLinksPage ==
  CanonicalPage(SiteLinks(2)
                  \o <<[href |-> <<"leaderboard", "a-lt-b">>,
                        attributes |-> "", text |-> "A<B"],
                       [href |-> <<"leaderboard", "cost">>,
                        attributes |-> "", text |-> "Cost $$"]>>)

\* template-engine.js generateNavigationLinks: the links the generated page
\* of a leaderboard starts with.
BaselineLinks ==
  [i \in 1..5 |-> [href |-> <<"..", SiteLinkTexts[i]>>,
                   attributes |-> "",
                   text |-> SiteLinkTexts[i]]]

ActiveLink(config) ==
  [href |-> <<".">>, attributes |-> " class=\"active\"",
   text |-> config.title]

\* A list builder that always puts the new link last.
navigationLinkListAppended(config) ==
  Append(BaselineLinks, ActiveLink(config))

\* generateNavigationLinks: the array links after links.splice(position, 0,
\* {...}), the active flag written as the attribute it is rendered to.
navigationLinkList(config) ==
  LET links == BaselineLinks
      position == IF config.hasPosition THEN config.position + 4
                  ELSE Len(links)
  IN Splice(links, position, ActiveLink(config))

generateNavigationLinks(config) == JoinLinks(navigationLinkList(config))

\* templates/leaderboard.html around {{{navigationLinks}}}
GeneratedPage(config) ==
  <<Markup, NavOpen, Markup, Nl12, UlOpen, Nl12, Sp4>>
    \o generateNavigationLinks(config)
    \o <<Nl12, UlClose, Nl8, NavClose, Markup>>

\* The files of the site.  A path is the sequence of its segments.
RootIndex == <<"index.html">>

RootAbout == <<"about.html">>

OwnBoard == <<"leaderboard", "qc-test", "index.html">>

\* A page the two glob patterns of findHtmlFiles do not match.
DocsPage == <<"docs", "index.html">>

DirNames == <<"peak_circuits", "archive", "2024", "q1">>

BoardPath(depth) ==
  <<"leaderboard">> \o SubSeq(DirNames, 1, depth) \o <<"index.html">>

\* A copy of the leaderboard's page kept further down the leaderboard
\* directory; glob('leaderboard/**/index.html') matches it.
ArchivedBoard ==
  <<"leaderboard", "archive", "leaderboard", "qc-test", "index.html">>

SitePaths ==
  {RootIndex, RootAbout, OwnBoard, ArchivedBoard, DocsPage}
    \cup {BoardPath(d) : d \in 0..MaxDepth}

Absent == [exists |-> FALSE, content |-> << >>]

File(content) == [exists |-> TRUE, content |-> content]

\* The titles a configuration may carry: a fresh one, the text of a baseline
\* link, one with "<" and one with "$$" in it.
Titles == {"QC Test", "Overview", "A<B", "Cost $$"}

NavConfigs ==
  [id : {"qc-test"}, title : Titles, hasPosition : {FALSE}, position : {0}]
    \cup [id : {"qc-test"}, title : Titles, hasPosition : {TRUE},
          position : (0 - MaxBack)..MaxPosition]

\* The page the run is observed on: the root index in every shape, every
\* other candidate with a full list, the leaderboard's own page as the
\* generator wrote it.
SubjectPages(config) ==
  {<<RootIndex, CanonicalPage(SiteLinks(n))>> : n \in 0..MaxLinks}
    \cup {<<RootIndex, c>> :
            c \in {EmptyListPage, BlankListPage, NoNavPage, HandWrittenPage,
                   EarlierLinksPage}}
    \cup {<<BoardPath(d), CanonicalPage(SiteLinks(MaxLinks))>> :
            d \in 0..MaxDepth}
    \cup {<<OwnBoard, GeneratedPage(config)>>,
          <<ArchivedBoard, GeneratedPage(config)>>}

SecondPages == {Absent, File(NoNavPage), File(CanonicalPage(SiteLinks(4)))}

\* ----------------------------------------- lib/file-generator.js: datastore
\* leaderboard_data.json is an object keyed by leaderboard id; a document is
\* the sequence of its members, in the order JSON.stringify writes them and
\* JSON.parse reads them back.
HasKey(data, key) == \E i \in 1..Len(data) : data[i].key = key

Lookup(data, key) ==
  data[CHOOSE i \in 1..Len(data) : data[i].key = key].value

\* data[key] = value: an existing member keeps its place, a new one is last.
AssignKey(data, key, value) ==
  IF HasKey(data, key)
  THEN [i \in 1..Len(data) |->
          IF data[i].key = key THEN [key |-> key, value |-> value]
          ELSE data[i]]
  ELSE Append(data, [key |-> key, value |-> value])

EmptyObject == [t |-> "obj", members |-> << >>]

\* The record updateDataFile stores for a configuration.  A configuration
\* is seen here as [id, title, shortDescription, hasInitialStats,
\* initialStats, hasInitialEntries, initialEntries, columns, visualization,
\* content].
EntryOf(config, date) ==
  [metadata |-> [title |-> config.title,
                 description |-> config.shortDescription,
                 created |-> date,
                 lastUpdated |-> date],
   stats |-> IF config.hasInitialStats THEN config.initialStats
             ELSE EmptyObject,
   columns |-> config.columns,
   entries |-> IF config.hasInitialEntries THEN config.initialEntries
               ELSE << >>,
   visualization |-> config.visualization,
   content |-> config.content]

\* A merge that keeps the creation date of an entry it replaces.
BuildDataKeepCreated(data, config, date) ==
  AssignKey(data, config.id,
    IF HasKey(data, config.id)
    THEN [EntryOf(config, date) EXCEPT
            !.metadata.created = Lookup(data, config.id).metadata.created]
    ELSE EntryOf(config, date))

\* data[key] = value on an object literal or a JSON.parse result: for the
\* key "__proto__" that data does not hold as an own property, the
\* assignment sets the prototype of data and adds no property, so that
\* JSON.stringify(data) has no such key.
SetMember(data, key, value) ==
  IF key = "__proto__" /\ ~HasKey(data, key) THEN data
  ELSE AssignKey(data, key, value)

\* data[config.id] = {...}
BuildData(data, config, date) ==
  SetMember(data, config.id, EntryOf(config, date))

\* A write that keeps the members of the file the written document lacks
\* or did not set.
WriteFileMerged(current, data, id) ==
  LET kept == SelectSeq(current, LAMBDA m : ~HasKey(data, m.key))
      mine == [i \in 1..Len(data) |->
                 IF data[i].key # id /\ HasKey(current, data[i].key)
                 THEN [key |-> data[i].key,
                       value |-> Lookup(current, data[i].key)]
                 ELSE data[i]]
  IN mine \o kept

\* fs.writeFile(dataPath, JSON.stringify(data, null, 2)): the file is what
\* the run holds, whatever the file held.
WriteFile(current, data, id) == data

\* The configurations of the datastore runs.
StoreConfigs ==
  {[id |-> "qc-test", title |-> "QC Test", shortDescription |-> "first",
    hasInitialStats |-> TRUE,
    initialStats |-> [t |-> "obj", members |-> <<"total">>],
    hasInitialEntries |-> TRUE, initialEntries |-> <<"entry 1">>,
    columns |-> <<"rank", "score">>, visualization |-> "scatter",
    content |-> "sections"],
   [id |-> "qc-test", title |-> "QC Test, revised",
    shortDescription |-> "second",
    hasInitialStats |-> FALSE, initialStats |-> EmptyObject,
    hasInitialEntries |-> FALSE, initialEntries |-> << >>,
    columns |-> <<"rank">>, visualization |-> "bar",
    content |-> "sections"],
   [id |-> "other", title |-> "Other", shortDescription |-> "third",
    hasInitialStats |-> FALSE, initialStats |-> EmptyObject,
    hasInitialEntries |-> TRUE, initialEntries |-> << >>,
    columns |-> <<"rank">>, visualization |-> "line",
    content |-> "sections"]}

\* What the file may hold for an id before the runs: what an earlier run of
\* one of the configurations stored on day 0, as it stored it or with
\* submissions added since and a member the generator does not write.
OldEntries(id) ==
  LET stored == {EntryOf(c, 0) : c \in {c \in StoreConfigs : c.id = id}}
  IN stored
     \cup {[e EXCEPT !.entries = Append(e.entries, "submission")]
             @@ [notes |-> "kept by hand"] : e \in stored}

OldMembers(id) == {[key |-> id, value |-> e] : e \in OldEntries(id)}

\* The documents the file may hold before the runs.
OldDocs ==
  {<< >>}
    \cup {<<m>> : m \in OldMembers("qc-test") \cup OldMembers("other")}
    \cup {<<m, n>> : m \in OldMembers("qc-test"), n \in OldMembers("other")}
    \cup {<<n, m>> : m \in OldMembers("qc-test"), n \in OldMembers("other")}

\* The runs of updateDataFile that may be under way at once.
Runs == {"run 1", "run 2"}

\* ------------------------------------ lib/template-engine.js: renderTemplate
\* A text is the sequence of its characters.  A template is a sequence of
\* parts: literal text, {{name}} and {{{name}}}.
Text(s) == [k |-> "text", s |-> s]

Slot(name) == [k |-> "slot", name |-> name, triple |-> FALSE]

RawSlot(name) == [k |-> "slot", name |-> name, triple |-> TRUE]

\* Handlebars.Utils.escapeExpression, character by character (it also
\* replaces the apostrophe and the backtick, which the texts tried here
\* do not contain).
EntityOf(c) ==
  CASE c = "&" -> <<"&", "a", "m", "p", ";">>
    [] c = "<" -> <<"&", "l", "t", ";">>
    [] c = ">" -> <<"&", "g", "t", ";">>
    [] c = "\"" -> <<"&", "q", "u", "o", "t", ";">>
    [] c = "=" -> <<"&", "#", "x", "3", "D", ";">>
    [] OTHER -> <<c>>

RECURSIVE escapeExpression(_)
escapeExpression(string) ==
  IF string = << >> THEN << >>
  ELSE EntityOf(Head(string)) \o escapeExpression(Tail(string))

\* What a slot puts into the output: nothing for a value the data lacks,
\* the value itself for {{{name}}} and under noEscape, the escaped value
\* for {{name}} otherwise.
SlotOutput(part, data, options) ==
  IF ~data[part.name].present THEN << >>
  ELSE IF part.triple \/ options.noEscape THEN data[part.name].value
  ELSE escapeExpression(data[part.name].value)

\* Handlebars.compile(templateContent, options)(data)
RECURSIVE Compile(_, _, _)
Compile(parts, options, data) ==
  IF parts = << >> THEN << >>
  ELSE (IF Head(parts).k = "text" THEN Head(parts).s
        ELSE SlotOutput(Head(parts), data, options))
       \o Compile(Tail(parts), options, data)

\* A renderer that leaves Handlebars' escaping on.
renderTemplateEscaping(template, data) ==
  IF ~template.exists \/ ~template.wellFormed
  THEN [called |-> TRUE, threw |-> TRUE,
        message |-> "Template rendering failed", html |-> << >>]
  ELSE [called |-> TRUE, threw |-> FALSE, message |-> "none",
        html |-> Compile(template.parts, [noEscape |-> FALSE], data)]

\* renderTemplate(templatePath, data): read the template, compile it with
\* noEscape: true, run it; whatever is thrown on the way is thrown again as
\* 'Template rendering failed: ...'.
renderTemplate(template, data) ==
  IF ~template.exists \/ ~template.wellFormed
  THEN [called |-> TRUE, threw |-> TRUE,
        message |-> "Template rendering failed", html |-> << >>]
  ELSE [called |-> TRUE, threw |-> FALSE, message |-> "none",
        html |-> Compile(template.parts, [noEscape |-> TRUE], data)]

\* The members of the template data that are varied, and their values: a
\* title with '<' and '&', a value with a quote and '=', a plain one, the
\* empty string.
SlotNames == {"title", "shortDescription", "navigationLinks"}

SlotValues ==
  {<<"A", "<", "B", "&", "C">>, <<"x", "=", "\"", "1", "\"">>,
   <<"Q", "C">>, << >>}

TemplateData ==
  [SlotNames -> {[present |-> TRUE, value |-> v] : v \in SlotValues}
                  \cup {[present |-> FALSE, value |-> << >>]}]

\* The template files: none, one Handlebars cannot parse, and two that
\* use the slots in both forms.
Templates ==
  {[exists |-> FALSE, wellFormed |-> FALSE, parts |-> << >>],
   [exists |-> TRUE, wellFormed |-> FALSE, parts |-> << >>],
   [exists |-> TRUE, wellFormed |-> TRUE,
    parts |-> <<Text(<<"<", "h", "1", ">">>), Slot("title"),
                Text(<<"<", "/", "h", "1", ">">>),
                RawSlot("navigationLinks"), Slot("title")>>],
   [exists |-> TRUE, wellFormed |-> TRUE,
    parts |-> <<Slot("shortDescription"), Text(<<"&">>),
                RawSlot("title"), Slot("navigationLinks")>>]}

\* ------------------------------- lib/template-engine.js: generateTableRowCode
\* The row code is a sequence of statements of the generated script:
\*   rank: the three lines that put entry.rank into a rank badge
\*   let:  let <id>Class = ''; const <id>Value = entry.<id>;
\*   if:   if (<id>Value >= <value>) { <id>Class = '<class>'; }
\*   td:   row += `<td class="${<id>Class}">${entry.<id>}</td>`  (classed)
\*         row += `<td>${entry.<id>}</td>`                        (plain)
HasThresholds(column) == column.hasFormatting /\ column.formatting.hasThresholds

\* The statements for one column, with the thresholds taken last to first.
ColumnCodeReversed(column) ==
  IF column.id = "rank" THEN <<[op |-> "rank"]>>
  ELSE IF HasThresholds(column)
  THEN LET thresholds == column.formatting.thresholds
           n == Len(thresholds)
       IN <<[op |-> "let", id |-> column.id]>>
            \o [i \in 1..n |->
                  [op |-> "if", id |-> column.id,
                   value |-> thresholds[n + 1 - i].value,
                   class |-> thresholds[n + 1 - i].class]]
            \o <<[op |-> "td", id |-> column.id, classed |-> TRUE]>>
  ELSE <<[op |-> "td", id |-> column.id, classed |-> FALSE]>>

\* columns.forEach(column => { ... }): the statements for one column.
ColumnCode(column) ==
  IF column.id = "rank" THEN <<[op |-> "rank"]>>
  ELSE IF HasThresholds(column)
  THEN LET thresholds == column.formatting.thresholds
       IN <<[op |-> "let", id |-> column.id]>>
            \o [i \in 1..Len(thresholds) |->
                  [op |-> "if", id |-> column.id,
                   value |-> thresholds[i].value,
                   class |-> thresholds[i].class]]
            \o <<[op |-> "td", id |-> column.id, classed |-> TRUE]>>
  ELSE <<[op |-> "td", id |-> column.id, classed |-> FALSE]>>

RECURSIVE generateTableRowCode(_)
generateTableRowCode(columns) ==
  IF columns = << >> THEN << >>
  ELSE ColumnCode(Head(columns)) \o generateTableRowCode(Tail(columns))

\* The browser runs the row code on one entry.  An entry gives each field
\* a number or nothing; undefined >= n is false.  The result is the cells
\* of the row: the field, whether the cell is a rank badge, whether the td
\* has a class attribute, and the class.
RECURSIVE RunRowCode(_, _, _, _)
RunRowCode(code, entry, classes, row) ==
  IF code = << >> THEN row
  ELSE LET st == Head(code) IN
       CASE st.op = "rank" ->
              RunRowCode(Tail(code), entry, classes,
                         Append(row, [field |-> "rank", badge |-> TRUE,
                                      classed |-> FALSE, class |-> ""]))
         [] st.op = "let" ->
              RunRowCode(Tail(code), entry, [classes EXCEPT ![st.id] = ""],
                         row)
         [] st.op = "if" ->
              RunRowCode(Tail(code), entry,
                         IF entry[st.id].present /\ entry[st.id].n >= st.value
                         THEN [classes EXCEPT ![st.id] = st.class]
                         ELSE classes,
                         row)
         [] OTHER ->
              RunRowCode(Tail(code), entry, classes,
                         Append(row, [field |-> st.id, badge |-> FALSE,
                                      classed |-> st.classed,
                                      class |-> IF st.classed
                                                THEN classes[st.id]
                                                ELSE ""]))

\* The columns, thresholds and entries tried.
ColumnIds == {"rank", "score"}

ThresholdSet == [value : {0, 50}, class : {"low", "high"}]

RECURSIVE SeqsUpTo(_, _)
SeqsUpTo(S, n) ==
  IF n = 0 THEN {<< >>}
  ELSE SeqsUpTo(S, n - 1)
         \cup {Append(q, x) : q \in {q \in SeqsUpTo(S, n - 1) : Len(q) = n - 1},
                              x \in S}

NoFormatting == [hasThresholds |-> FALSE, thresholds |-> << >>]

Columns ==
  [id : ColumnIds, hasFormatting : {FALSE}, formatting : {NoFormatting}]
    \cup [id : ColumnIds, hasFormatting : {TRUE},
          formatting : {NoFormatting}
                         \cup [hasThresholds : {TRUE},
                               thresholds : SeqsUpTo(ThresholdSet,
                                                     MaxThresholds)]]

EntryValues ==
  {[present |-> FALSE, n |-> 0]}
    \cup {[present |-> TRUE, n |-> n] : n \in {-5, 0, 25, 50, 75}}

\* ---------------------- lib/template-engine.js: axis ticks and chart markers
\* A pixel position is a JavaScript number: a fraction num/den in lowest
\* terms with den > 0 (the double the script computes is the one nearest
\* to it), or NaN, Infinity or -Infinity.
RECURSIVE Gcd(_, _)
Gcd(a, b) == IF b = 0 THEN a ELSE Gcd(b, a % b)

Abs(a) == IF a < 0 THEN 0 - a ELSE a

Frac(num, den) ==
  LET g == Gcd(Abs(num), Abs(den))
      sign == IF den < 0 THEN -1 ELSE 1
  IN [kind |-> "number", num |-> sign * (num \div g),
      den |-> sign * (den \div g)]

NotANumber == [kind |-> "NaN", num |-> 0, den |-> 1]

Infinite(positive) ==
  [kind |-> IF positive THEN "Infinity" ELSE "-Infinity", num |-> 0, den |-> 1]

\* base + ((value - axis.min) / (axis.max - axis.min)) * span, for a span
\* that is not 0.  A missing min or max is undefined and makes the result
\* NaN; max = min divides by zero.
Interpolate(base, span, value, axis) ==
  IF ~axis.hasMin \/ ~axis.hasMax THEN NotANumber
  ELSE LET a == value - axis.min
           b == axis.max - axis.min
       IN IF b = 0
          THEN (IF a = 0 THEN NotANumber ELSE Infinite((a > 0) = (span > 0)))
          ELSE Frac(base * b + a * span, b)

\* Math.min(position, limit)
MathMin(position, limit) ==
  CASE position.kind = "NaN" -> position
    [] position.kind = "Infinity" -> Frac(limit, 1)
    [] position.kind = "-Infinity" -> position
    [] OTHER -> IF position.num > limit * position.den THEN Frac(limit, 1)
                ELSE position

\* A tick position whose y axis grows downwards.
TickPositionNotInverted(axis, type, tick) ==
  IF type = "x" THEN Interpolate(80, 670, tick, axis)
  ELSE Interpolate(50, 300, tick, axis)

\* generateAxisLabels: xPos = 80 + (...) * 670, yPos = 350 - (...) * 300
TickPosition(axis, type, tick) ==
  IF type = "x" THEN Interpolate(80, 670, tick, axis)
  ELSE Interpolate(350, -300, tick, axis)

\* generateAxisLabels(axis, type): the <text> elements, in order.
generateAxisLabels(axis, type) ==
  IF ~axis.hasTicks \/ ~axis.hasTickLabels
       \/ Len(axis.ticks) # Len(axis.tickLabels)
  THEN << >>
  ELSE [index \in 1..Len(axis.ticks) |->
          IF type = "x"
          THEN [x |-> TickPosition(axis, type, axis.ticks[index]),
                y |-> Frac(375, 1), anchor |-> "middle",
                label |-> axis.tickLabels[index]]
          ELSE [x |-> Frac(30, 1),
                y |-> TickPosition(axis, type, axis.ticks[index]),
                anchor |-> "end", label |-> axis.tickLabels[index]]]

\* generateChartPointsCode: the x and y the generated script computes for
\* an entry whose fields have the values xValue and yValue.
ChartPoint(xAxis, yAxis, xValue, yValue) ==
  [plotted |-> TRUE,
   x |-> MathMin(Interpolate(80, 670, xValue, xAxis), 750),
   y |-> Interpolate(350, -280, yValue, yAxis)]

\* The axes tried: ranges (one of them empty, one without min and max),
\* ticks on and off the range, labels.
TickValues == {0, 50, 100}

AxisRanges ==
  {[hasMin |-> TRUE, min |-> r[1], hasMax |-> TRUE, max |-> r[2]] :
     r \in {<<0, 100>>, <<0, 75>>, <<50, 100>>, <<50, 50>>}}
    \cup {[hasMin |-> FALSE, min |-> 0, hasMax |-> FALSE, max |-> 0]}

Axes ==
  {[hasMin |-> r.hasMin, min |-> r.min, hasMax |-> r.hasMax, max |-> r.max,
    hasTicks |-> t.has, ticks |-> t.seq,
    hasTickLabels |-> l.has, tickLabels |-> l.seq] :
     r \in AxisRanges,
     t \in {[has |-> FALSE, seq |-> << >>]}
             \cup {[has |-> TRUE, seq |-> q] : q \in SeqsUpTo(TickValues, MaxTicks)},
     l \in {[has |-> FALSE, seq |-> << >>]}
             \cup {[has |-> TRUE, seq |-> q] : q \in SeqsUpTo({"label"}, MaxTicks)}}

FieldValues == {0, 25, 50, 100, 150}

\* ------------------------------------------------------------------- state
VARIABLES
  vcfg,     \* validator: the configuration about to be validated
  vedits,   \* validator: how many edits vcfg is away from BaseConfig
  vres,     \* validator: what validateConfig returned for vcfg, if called
  files,        \* the site: path -> [exists, content]
  navCfg,       \* navigation sync: the configuration it is run with
  navPrevCfg,   \* the configuration the sync before was run with
  navPc,        \* "idle", "running", "done" (resolved), "threw" (rejected)
  navQueue,     \* htmlFiles not yet visited by the loop of updateNavigation
  navSyncs,     \* how many syncs were started
  navStep,      \* what the last call of updateNavigationInFile did
  navUpdated,   \* the files the running (or last) sync has written
  navPrevFiles, \* the site when the running (or last) sync started
  navPrevPc,    \* how the sync before the running (or last) one ended
  store,        \* leaderboard_data.json: [exists, doc]
  today,        \* the date, in days
  runs,         \* updateDataFile: run -> where it is and what it holds
  writes,       \* the writes of leaderboard_data.json so far, in order
  pMode,        \* entry point: how the generation run was started
  pInput,       \* entry point: the configuration file, answers or body
  pOptions,     \* entry point: [skipNavigation, saveConfig]
  pConfig,      \* entry point: the configuration the run generates from
  pPc,          \* entry point: where the run is
  pChecked,     \* what the schema check of this run said, if it was made
  pWritten,     \* the files the run has created or written, in order
  pOutcome,     \* the exit code, result or HTTP status, once there is one
  pError,       \* the message of the error that ended the run, if any
  rTemplate,    \* renderer: the template file
  rData,        \* renderer: the template data
  rOut,         \* renderer: what renderTemplate returned or threw
  tColumns,     \* row code: config.columns
  tEntry,       \* row code: the entry of the row, field -> value
  tRow,         \* row code: the cells the generated code made of the entry
  aAxis,        \* chart: the axis configuration
  aType,        \* chart: "x" or "y"
  aLabels,      \* chart: what generateAxisLabels returned
  aValue,       \* chart: the value of the entry's field on that axis
  aMarker,      \* chart: where the generated script puts the entry's marker
  gConfig,      \* generateLeaderboard: the configuration
  gTemplate,    \* generateLeaderboard: templates/leaderboard.html
  gDate,        \* generateLeaderboard: the date of the run, in days
  gPc,          \* generateLeaderboard: where the run is
  gDir,         \* whether leaderboard/<id> exists
  gHtml,        \* leaderboard/<id>/index.html: [exists, content]
  gStore,       \* leaderboard_data.json as this run sees it: [exists, doc]
  gLinks,       \* generateNavigationLinks: its array links, once built
  mStore,       \* merges one after another: leaderboard_data.json
  mBefore,      \* the document the last merge read (its data before the
                \* assignment)
  mConfig,      \* the configuration of the last merge
  mMerged,      \* the ids merged so far, in order
  lProviders,   \* LLM service: the Map providers, [id, inst] in its order
  lInst,        \* the provider instances ever made: number -> its fields
  lCreated,     \* how many provider instances were made
  lDefault,     \* defaultProvider: an instance number, 0 for null
  lFallback,    \* global.llmFallbackOrder: [set, order]
  lGone,        \* the instances deleteProvider shut down and removed
  lCall,        \* the call of processMessage under way or just ended
  sMem,         \* chat service: the session in the Map sessions
  sDisk,        \* chat service: the session as its file holds it
  sCalls,       \* sendMessage: call -> where it is and what it holds
  sSends        \* how many messages were sent; the clock of updatedAt

valVars == <<vcfg, vedits, vres>>

navVars == <<files, navCfg, navPrevCfg, navPc, navQueue, navSyncs, navStep, navUpdated,
             navPrevFiles, navPrevPc>>

storeVars == <<store, today, runs, writes>>

pipeVars == <<pMode, pInput, pOptions, pConfig, pPc, pChecked, pWritten,
              pOutcome, pError>>

renderVars == <<rTemplate, rData, rOut>>

rowVars == <<tColumns, tEntry, tRow>>

axisVars == <<aAxis, aType, aLabels, aValue, aMarker>>

tplVars == <<renderVars, rowVars, axisVars>>

genVars == <<gConfig, gTemplate, gDate, gPc, gDir, gHtml, gStore, gLinks>>

mergeVars == <<mStore, mBefore, mConfig, mMerged>>

llmVars == <<lProviders, lInst, lCreated, lDefault, lFallback, lGone, lCall>>

chatVars == <<sMem, sDisk, sCalls, sSends>>

extVars == <<genVars, mergeVars, llmVars, chatVars>>

vars == <<valVars, navVars, storeVars, pipeVars, tplVars, extVars>>

otherThanVal == <<navVars, storeVars, pipeVars, tplVars, extVars>>

otherThanNav == <<valVars, storeVars, pipeVars, tplVars, extVars>>

otherThanStore == <<valVars, navVars, pipeVars, tplVars, extVars>>

otherThanPipe == <<valVars, navVars, storeVars, tplVars, extVars>>

otherThanTpl == <<valVars, navVars, storeVars, pipeVars, extVars>>

otherThanGen ==
  <<valVars, navVars, storeVars, pipeVars, tplVars, mergeVars, llmVars,
    chatVars>>

otherThanMerge ==
  <<valVars, navVars, storeVars, pipeVars, tplVars, genVars, llmVars,
    chatVars>>

otherThanLlm ==
  <<valVars, navVars, storeVars, pipeVars, tplVars, genVars, mergeVars,
    chatVars>>

otherThanChat ==
  <<valVars, navVars, storeVars, pipeVars, tplVars, genVars, mergeVars,
    llmVars>>

NotCalled == [called |-> FALSE, isValid |-> FALSE,
              errors |-> [null |-> TRUE, list |-> << >>]]

NoStep == [file |-> << >>, outcome |-> "none", before |-> << >>,
           links |-> << >>, newLinks |-> << >>, relativePath |-> << >>,
           isActive |-> FALSE, warned |-> FALSE]

\* The validator at rest.
ValIdle ==
  /\ vcfg = BaseConfig
  /\ vedits = 0
  /\ vres = NotCalled

\* Navigation sync at rest, on a site without pages.
NavIdle ==
  /\ files = [p \in SitePaths |-> Absent]
  /\ navCfg = [id |-> "qc-test", title |-> "QC Test", hasPosition |-> FALSE,
               position |-> 0]
  /\ navPrevCfg = navCfg
  /\ navPc = "idle"
  /\ navQueue = << >>
  /\ navSyncs = 0
  /\ navStep = NoStep
  /\ navUpdated = {}
  /\ navPrevFiles = [p \in SitePaths |-> Absent]
  /\ navPrevPc = "none"

IdleRun == [pc |-> "idle", config |-> [id |-> ""], data |-> << >>,
            out |-> << >>, date |-> 0, readAfter |-> 0]

\* The datastore at rest: no file, no run.
StoreIdle ==
  /\ store = [exists |-> FALSE, doc |-> << >>]
  /\ today = 0
  /\ runs = [r \in Runs |-> IdleRun]
  /\ writes = << >>

NoConfig == [t |-> "undefined"]

\* No generation run.
PipeIdle ==
  /\ pMode = "none"
  /\ pInput = [kind |-> "none", config |-> NoConfig]
  /\ pOptions = [skipNavigation |-> FALSE, saveConfig |-> FALSE]
  /\ pConfig = NoConfig
  /\ pPc = "idle"
  /\ pChecked = "unchecked"
  /\ pWritten = << >>
  /\ pOutcome = "none"
  /\ pError = "none"

NotRendered == [called |-> FALSE, threw |-> FALSE, message |-> "none",
                html |-> << >>]

\* The template engine at rest.
RenderIdle ==
  /\ rTemplate = [exists |-> FALSE, wellFormed |-> FALSE, parts |-> << >>]
  /\ rData = [n \in SlotNames |-> [present |-> FALSE, value |-> << >>]]
  /\ rOut = NotRendered

NoRow == [rendered |-> FALSE, cells |-> << >>]

RowIdle ==
  /\ tColumns = << >>
  /\ tEntry = [id \in ColumnIds |-> [present |-> FALSE, n |-> 0]]
  /\ tRow = NoRow

NoAxis == [hasMin |-> FALSE, min |-> 0, hasMax |-> FALSE, max |-> 0,
           hasTicks |-> FALSE, ticks |-> << >>,
           hasTickLabels |-> FALSE, tickLabels |-> << >>]

NoLabels == [called |-> FALSE, elements |-> << >>]

NoMarker == [plotted |-> FALSE, x |-> Frac(0, 1), y |-> Frac(0, 1)]

AxisIdle ==
  /\ aAxis = NoAxis
  /\ aType = "x"
  /\ aLabels = NoLabels
  /\ aValue = 0
  /\ aMarker = NoMarker

TplIdle == RenderIdle /\ RowIdle /\ AxisIdle

NoLinks == [built |-> FALSE, links |-> << >>]

GenIdle ==
  /\ gConfig = NoConfig
  /\ gTemplate = [exists |-> FALSE, wellFormed |-> FALSE, parts |-> << >>]
  /\ gDate = 0
  /\ gPc = "idle"
  /\ gDir = FALSE
  /\ gHtml = [exists |-> FALSE, content |-> << >>]
  /\ gStore = [exists |-> FALSE, doc |-> << >>]
  /\ gLinks = NoLinks

MergeIdle ==
  /\ mStore = [exists |-> FALSE, doc |-> << >>]
  /\ mBefore = << >>
  /\ mConfig = NoConfig
  /\ mMerged = << >>

NoInstance == [id |-> "none", available |-> FALSE, status |-> "none"]

IdleCall ==
  [pc |-> "idle", providerId |-> "none", useFallback |-> FALSE,
   fellBack |-> FALSE, order |-> << >>, tried |-> << >>, result |-> 0,
   error |-> "none"]

\* The LLM service module as loaded: no provider, no default, no fallback
\* order.
LlmIdle ==
  /\ lProviders = << >>
  /\ lInst = [n \in 1..MaxInstances |-> NoInstance]
  /\ lCreated = 0
  /\ lDefault = 0
  /\ lFallback = [set |-> FALSE, order |-> << >>]
  /\ lGone = {}
  /\ lCall = IdleCall

SendCalls == {"call 1", "call 2"}

\* createSession: the session it makes, after its welcome message, with
\* the configuration of configService.createInitialConfig (one column, a
\* visualization type, no id, title, description or content section).
\* Of the configuration only what buildContext and determineNextStage
\* read is kept: whether the member is truthy (has an element, a type).
NewSession ==
  [messages |-> <<"assistant">>,
   updatedAt |-> 0,
   config |-> [id |-> FALSE, title |-> FALSE, shortDescription |-> FALSE,
               columns |-> TRUE, visualization |-> TRUE,
               content |-> FALSE],
   currentStage |-> "welcome",
   completedStages |-> << >>,
   activeProvider |-> "null"]

NoExtract == [present |-> FALSE, config |-> << >>]

IdleSend ==
  [pc |-> "idle", currentStage |-> "none", providerId |-> "null",
   before |-> NewSession, overlapped |-> FALSE, reason |-> "none"]

ChatIdle ==
  /\ sMem = NewSession
  /\ sDisk = NewSession
  /\ sCalls = [c \in SendCalls |-> IdleSend]
  /\ sSends = 0

ExtIdle == GenIdle /\ MergeIdle /\ LlmIdle /\ ChatIdle

\* ---------------------------------------------------- validator: the calls
ValInit == ValIdle /\ NavIdle /\ StoreIdle /\ PipeIdle /\ TplIdle /\ ExtIdle

\* The caller's configuration lacks a member it could have had.
RemoveMember(path) ==
  /\ vedits < MaxEdits
  /\ ~vres.called
  /\ vcfg' = Remove(vcfg, path)
  /\ vedits' = vedits + 1
  /\ UNCHANGED <<vres, otherThanVal>>

\* The caller's configuration holds a value the schema does not allow.
ReplaceMember(path, v) ==
  /\ vedits < MaxEdits
  /\ ~vres.called
  /\ Exists(vcfg, path)
  /\ Get(vcfg, path) # v
  /\ vcfg' = Put(vcfg, path, v)
  /\ vedits' = vedits + 1
  /\ UNCHANGED <<vres, otherThanVal>>

\* validateConfig(config)
CallValidateConfig ==
  /\ ~vres.called
  /\ vres' = [called |-> TRUE] @@ validateConfig(vcfg)
  /\ UNCHANGED <<vcfg, vedits, otherThanVal>>

ValNext ==
  \/ \E path \in PathsOf(vcfg) : RemoveMember(path)
  \/ \E r \in BadReplacements \cup OtherReplacements :
       ReplaceMember(r[1], r[2])
  \/ CallValidateConfig

ValSpec == ValInit /\ [][ValNext]_vars

\* ------------------------------------------------ navigation sync: the run
RECURSIVE Perms(_)
Perms(S) ==
  IF S = {} THEN {<< >>}
  ELSE UNION {{<<x>> \o q : q \in Perms(S \ {x})} : x \in S}

\* findHtmlFiles: glob('*.html') then glob('leaderboard/**/index.html'),
\* each in the order the file system lists them.
rootHtmlFiles(site) == {p \in DOMAIN site : site[p].exists /\ Len(p) = 1}

leaderboardHtmlFiles(site) ==
  {p \in DOMAIN site : /\ site[p].exists
                       /\ Len(p) >= 2
                       /\ p[1] = "leaderboard"
                       /\ p[Len(p)] = "index.html"}

findHtmlFiles(site) ==
  {r \o l : r \in Perms(rootHtmlFiles(site)),
            l \in Perms(leaderboardHtmlFiles(site))}

\* The site holds one observed page, the page the globs do not match and
\* possibly a second root page; sync has not run.
NavInit ==
  /\ ExtIdle
  /\ ValIdle
  /\ StoreIdle
  /\ PipeIdle
  /\ TplIdle
  /\ \E config \in NavConfigs :
       \E subject \in SubjectPages(config), second \in SecondPages :
         /\ navCfg = config
         /\ navPrevCfg = config
         /\ files = [p \in SitePaths |->
                       IF p = subject[1] THEN File(subject[2])
                       ELSE IF p = RootAbout THEN second
                       ELSE IF p = DocsPage
                       THEN File(CanonicalPage(SiteLinks(2)))
                       ELSE Absent]
         /\ navPrevFiles = files
  /\ navPc = "idle"
  /\ navQueue = << >>
  /\ navSyncs = 0
  /\ navStep = NoStep
  /\ navUpdated = {}
  /\ navPrevPc = "none"

\* The configurations of a rerun: the same one, or the same one with
\* navigation.position changed.
RerunConfigs(config) ==
  {config,
   [config EXCEPT !.hasPosition = TRUE,
                  !.position = IF ~config.hasPosition THEN 0
                               ELSE IF config.position < MaxPosition
                               THEN config.position + 1
                               ELSE 0 - MaxBack]}

\* updateNavigation(config, baseDir) is called: htmlFiles is computed.
NavStart ==
  /\ navPc \in {"idle", "done", "threw"}
  /\ navSyncs < MaxSyncs
  /\ navCfg' \in (IF navSyncs = 0 THEN {navCfg} ELSE RerunConfigs(navCfg))
  /\ navPrevCfg' = navCfg
  /\ \E htmlFiles \in findHtmlFiles(files) : navQueue' = htmlFiles
  /\ navPc' = "running"
  /\ navSyncs' = navSyncs + 1
  /\ navStep' = NoStep
  /\ navUpdated' = {}
  /\ navPrevFiles' = files
  /\ navPrevPc' = IF navPc = "idle" THEN "none" ELSE navPc
  /\ UNCHANGED <<files, otherThanNav>>

\* What the step records of the file it looked at.
StepOf(htmlFile, outcome) ==
  LET htmlContent == files[htmlFile].content
      navSection == findNavigationSection(htmlContent)
      links == ParseLinks(navSection.navLinks)
      relativePath == calculateRelativePath(htmlFile, navCfg.id)
      isActive == isNewLeaderboard(htmlFile, navCfg.id)
  IN [file |-> htmlFile, outcome |-> outcome, before |-> htmlContent,
      links |-> links,
      newLinks |-> NewLinks(links, navCfg, relativePath, isActive),
      relativePath |-> relativePath, isActive |-> isActive,
      warned |-> FALSE]

\* The catch blocks of updateNavigationInFile and of updateNavigation:
\* both log the error and throw it again.
OnFileErrorSkip(rest) == [pc |-> "running", queue |-> rest]

OnFileError(rest) == [pc |-> "threw", queue |-> rest]

\* A step that takes a file without a navigation section for an error.
NavFileSkippedThrows ==
  /\ navPc = "running"
  /\ navQueue # << >>
  /\ ~findNavigationSection(files[Head(navQueue)].content).found
  /\ navStep' = [NoStep EXCEPT !.file = Head(navQueue),
                               !.outcome = "skipped",
                               !.before = files[Head(navQueue)].content]
  /\ navPc' = "threw"
  /\ navQueue' = Tail(navQueue)
  /\ UNCHANGED <<files, navCfg, navPrevCfg, navSyncs, navUpdated,
                 navPrevFiles, navPrevPc, otherThanNav>>

\* updateNavigationInFile: the file has no navigation section;
\* console.warn and return.
NavFileSkipped ==
  /\ navPc = "running"
  /\ navQueue # << >>
  /\ ~findNavigationSection(files[Head(navQueue)].content).found
  /\ navStep' = [NoStep EXCEPT !.file = Head(navQueue),
                               !.outcome = "skipped",
                               !.before = files[Head(navQueue)].content,
                               !.warned = TRUE]
  /\ navQueue' = Tail(navQueue)
  /\ UNCHANGED <<files, navCfg, navPrevCfg, navPc, navSyncs, navUpdated,
                 navPrevFiles, navPrevPc, otherThanNav>>

\* A writer that leaves a file alone when the new content is the old one.
WrittenIfChanged(updated, htmlFile, htmlContent, updatedHtml) ==
  IF updatedHtml = htmlContent THEN updated ELSE updated \cup {htmlFile}

\* updateNavigationInFile: await fs.writeFile(htmlFile, updatedHtml), the
\* files written so far.  Nothing compares updatedHtml with htmlContent.
Written(updated, htmlFile, htmlContent, updatedHtml) ==
  updated \cup {htmlFile}

\* updateNavigationInFile: the file is read, the link inserted, the file
\* written.
NavFileUpdated ==
  /\ navPc = "running"
  /\ navQueue # << >>
  /\ LET htmlFile == Head(navQueue)
         htmlContent == files[htmlFile].content
         navSection == findNavigationSection(htmlContent)
     IN /\ navSection.found
        /\ files' = [files EXCEPT ![htmlFile].content =
                       insertNavigationLink(htmlContent, navSection, navCfg,
                         calculateRelativePath(htmlFile, navCfg.id),
                         isNewLeaderboard(htmlFile, navCfg.id))]
        /\ navStep' = StepOf(htmlFile, "updated")
        /\ navUpdated' = Written(navUpdated, htmlFile, htmlContent,
                                 files'[htmlFile].content)
  /\ navQueue' = Tail(navQueue)
  /\ UNCHANGED <<navCfg, navPrevCfg, navPc, navSyncs, navPrevFiles,
                 navPrevPc, otherThanNav>>

\* updateNavigationInFile: fs.readFile rejects.
NavFileReadFails ==
  /\ navPc = "running"
  /\ navQueue # << >>
  /\ navStep' = [NoStep EXCEPT !.file = Head(navQueue),
                               !.outcome = "read failed",
                               !.before = files[Head(navQueue)].content]
  /\ navPc' = OnFileError(Tail(navQueue)).pc
  /\ navQueue' = OnFileError(Tail(navQueue)).queue
  /\ UNCHANGED <<files, navCfg, navPrevCfg, navSyncs, navUpdated,
                 navPrevFiles, navPrevPc, otherThanNav>>

\* updateNavigationInFile: fs.writeFile rejects.
NavFileWriteFails ==
  /\ navPc = "running"
  /\ navQueue # << >>
  /\ findNavigationSection(files[Head(navQueue)].content).found
  /\ navStep' = StepOf(Head(navQueue), "write failed")
  /\ navPc' = OnFileError(Tail(navQueue)).pc
  /\ navQueue' = OnFileError(Tail(navQueue)).queue
  /\ UNCHANGED <<files, navCfg, navPrevCfg, navSyncs, navUpdated,
                 navPrevFiles, navPrevPc, otherThanNav>>

\* updateNavigation: the loop is over, the promise resolves.
NavFinish ==
  /\ navPc = "running"
  /\ navQueue = << >>
  /\ navPc' = "done"
  /\ UNCHANGED <<files, navCfg, navPrevCfg, navQueue, navSyncs, navStep,
                 navUpdated, navPrevFiles, navPrevPc, otherThanNav>>

NavNext ==
  \/ NavStart
  \/ NavFileSkipped
  \/ NavFileUpdated
  \/ NavFileReadFails
  \/ NavFileWriteFails
  \/ NavFinish

NavSpec == NavInit /\ [][NavNext]_vars

\* ------------------------------------------- datastore: updateDataFile runs
StoreInit ==
  /\ ExtIdle
  /\ ValIdle
  /\ NavIdle
  /\ PipeIdle
  /\ TplIdle
  /\ store \in {[exists |-> FALSE, doc |-> << >>]}
                \cup {[exists |-> TRUE, doc |-> d] : d \in OldDocs}
  /\ today = 0
  /\ runs = [r \in Runs |-> IdleRun]
  /\ writes = << >>

\* updateDataFile(config, baseDir) is called.
StoreStart(r, config) ==
  /\ runs[r].pc = "idle"
  /\ runs' = [runs EXCEPT ![r].pc = "checking", ![r].config = config]
  /\ UNCHANGED <<store, today, writes, otherThanStore>>

\* await fs.pathExists(dataPath); without a file data stays {} and the
\* entry is built at once.
StoreCheckExists(r) ==
  /\ runs[r].pc = "checking"
  /\ runs' = IF store.exists
             THEN [runs EXCEPT ![r].pc = "reading"]
             ELSE [runs EXCEPT ![r].pc = "writing",
                               ![r].data = << >>,
                               ![r].out = BuildData(<< >>, runs[r].config,
                                                    today),
                               ![r].date = today,
                               ![r].readAfter = Len(writes)]
  /\ UNCHANGED <<store, today, writes, otherThanStore>>

\* await fs.readFile(dataPath); JSON.parse; data[config.id] = {...}
StoreRead(r) ==
  /\ runs[r].pc = "reading"
  /\ runs' = [runs EXCEPT ![r].pc = "writing",
                          ![r].data = store.doc,
                          ![r].out = BuildData(store.doc, runs[r].config,
                                               today),
                          ![r].date = today,
                          ![r].readAfter = Len(writes)]
  /\ UNCHANGED <<store, today, writes, otherThanStore>>

\* await fs.writeFile(dataPath, JSON.stringify(data, null, 2))
StoreWrite(r) ==
  /\ runs[r].pc = "writing"
  /\ LET doc == WriteFile(store.doc, runs[r].out, runs[r].config.id)
     IN /\ store' = [exists |-> TRUE, doc |-> doc]
        /\ writes' = Append(writes, [run |-> r, doc |-> doc])
  /\ runs' = [runs EXCEPT ![r].pc = "done"]
  /\ UNCHANGED <<today, otherThanStore>>

\* Midnight passes.
Tick ==
  /\ today < MaxDays
  /\ today' = today + 1
  /\ UNCHANGED <<store, runs, writes, otherThanStore>>

StoreNext ==
  \/ \E r \in Runs, config \in StoreConfigs : StoreStart(r, config)
  \/ \E r \in Runs : StoreCheckExists(r)
  \/ \E r \in Runs : StoreRead(r)
  \/ \E r \in Runs : StoreWrite(r)
  \/ Tick

StoreSpec == StoreInit /\ [][StoreNext]_vars

\* ------------------------------------- entry points: index.js, chat backend
\* What --config may name: no file, a file that is no JSON, a file holding
\* a configuration.
ConfigFiles ==
  {[kind |-> "missing", config |-> NoConfig],
   [kind |-> "not JSON", config |-> NoConfig]}
    \cup {[kind |-> "config", config |-> c] :
            c \in {BaseConfig, Remove(BaseConfig, <<"content">>),
                   Remove(BaseConfig, <<"navigation">>)}
                  \cup {Put(BaseConfig, r[1], r[2]) : r \in BadReplacements}}

\* What the user may answer to the position prompt of the interactive mode
\* (a number, -1 by default).
PositionAnswers == {Num(-1), Num(0), Num(MaxPosition), Half(2)}

\* runInteractiveMode: the configuration built from the answers; only the
\* answer to the position prompt is varied.
runInteractiveMode(position) ==
  IF position.n >= 0
  THEN Put(BaseConfig, <<"navigation", "position">>, position)
  ELSE Remove(BaseConfig, <<"navigation", "position">>)

\* validateConfigFile: throws for a missing file, for a file that is no
\* JSON and for a configuration validateConfig rejects.
validateConfigFile(file) ==
  IF file.kind # "config"
  THEN [threw |-> TRUE, checked |-> "unchecked", config |-> NoConfig]
  ELSE IF ~validateConfig(file.config).isValid
  THEN [threw |-> TRUE, checked |-> "invalid", config |-> NoConfig]
  ELSE [threw |-> FALSE, checked |-> "valid", config |-> file.config]

PipeInit ==
  /\ ExtIdle
  /\ ValIdle
  /\ NavIdle
  /\ StoreIdle
  /\ PipeIdle
  /\ TplIdle

\* The order of the steps of one generation run: generateLeaderboard awaits
\* fs.ensureDir, then generateHtmlFile, then updateDataFile; its caller
\* awaits it and then, unless told otherwise, updateNavigation.  A variant
\* that updates the datastore before it renders the page:
AfterStepDataFirst(step, skipNavigation) ==
  CASE step = "generate" -> "datastore"
    [] step = "datastore" -> "render"
    [] step = "render" -> IF skipNavigation THEN "ended" ELSE "navigation"
    [] OTHER -> "ended"

AfterStep(step, skipNavigation) ==
  CASE step = "generate" -> "render"
    [] step = "render" -> "datastore"
    [] step = "datastore" -> IF skipNavigation THEN "ended" ELSE "navigation"
    [] OTHER -> "ended"

\* How a run that has ended reports it: index.js by its exit code,
\* generateLeaderboardFiles by the success member of what it returns.
Ended(mode, ok) ==
  IF mode = "service"
  THEN IF ok THEN "success: true" ELSE "success: false"
  ELSE IF ok THEN "exit 0" ELSE "exit 1"

\* The outcome of a step that has led to step `next`.
OutcomeAt(next) == IF next = "ended" THEN Ended(pMode, TRUE) ELSE pOutcome

\* node index.js --config <path> [--skip-navigation]
StartCliConfig(file, skipNavigation) ==
  /\ pPc = "idle"
  /\ pMode' = "cli --config"
  /\ pInput' = file
  /\ pOptions' = [skipNavigation |-> skipNavigation, saveConfig |-> FALSE]
  /\ pPc' = "load"
  /\ UNCHANGED <<pConfig, pChecked, pWritten, pOutcome, pError,
                 otherThanPipe>>

\* node index.js --interactive [--skip-navigation]
StartCliInteractive(position, skipNavigation, saveConfig) ==
  /\ pPc = "idle"
  /\ pMode' = "cli --interactive"
  /\ pInput' = [kind |-> "answers", config |-> position]
  /\ pOptions' = [skipNavigation |-> skipNavigation,
                  saveConfig |-> saveConfig]
  /\ pPc' = "load"
  /\ UNCHANGED <<pConfig, pChecked, pWritten, pOutcome, pError,
                 otherThanPipe>>

\* node index.js with neither option: the error is printed, then
\* program.help() prints the help and ends the process itself, with exit
\* code 0 (commander's help() exits with process.exitCode || 0, and no
\* exitOverride is installed); the process.exit(1) after it is never
\* reached.
StartCliBare ==
  /\ pPc = "idle"
  /\ pMode' = "cli"
  /\ pPc' = "ended"
  /\ pOutcome' = "exit 0"
  /\ pError' = "No configuration provided"
  /\ UNCHANGED <<pInput, pOptions, pConfig, pChecked, pWritten,
                 otherThanPipe>>

\* generateLeaderboardFiles(config, options) of the chat backend's
\* leaderboard service, called directly.
StartService(config, updateNavigation) ==
  /\ pPc = "idle"
  /\ pMode' = "service"
  /\ pInput' = [kind |-> "config", config |-> config]
  /\ pOptions' = [skipNavigation |-> ~updateNavigation, saveConfig |-> FALSE]
  /\ pPc' = "load"
  /\ UNCHANGED <<pConfig, pChecked, pWritten, pOutcome, pError,
                 otherThanPipe>>

\* validateConfigFile: the message of what it throws.
LoadError(file) ==
  CASE file.kind = "missing" -> "Configuration file not found"
    [] file.kind = "not JSON" -> "Invalid JSON in configuration file"
    [] OTHER -> "Invalid configuration"

\* main: config = await validateConfigFile(configPath)
CliLoadConfig ==
  /\ pPc = "load"
  /\ pMode = "cli --config"
  /\ LET loaded == validateConfigFile(pInput)
     IN /\ pChecked' = loaded.checked
        /\ pConfig' = loaded.config
        /\ pPc' = IF loaded.threw THEN "ended" ELSE "generate"
        /\ pOutcome' = IF loaded.threw THEN "exit 1" ELSE pOutcome
        /\ pError' = IF loaded.threw THEN LoadError(pInput) ELSE pError
  /\ UNCHANGED <<pMode, pInput, pOptions, pWritten, otherThanPipe>>

\* main: config = await runInteractiveMode(), which writes the
\* configuration to a file if the user says so.
CliInteractive ==
  /\ pPc = "load"
  /\ pMode = "cli --interactive"
  /\ pConfig' = runInteractiveMode(pInput.config)
  /\ pWritten' = IF pOptions.saveConfig
                 THEN Append(pWritten, "configuration file")
                 ELSE pWritten
  /\ pPc' = "generate"
  /\ UNCHANGED <<pMode, pInput, pOptions, pChecked, pOutcome, pError,
                 otherThanPipe>>

\* generateLeaderboardFiles: if (!config.id) throw; the catch of the same
\* function turns what was thrown into { success: false, error }.
ServiceCheckId ==
  /\ pPc = "load"
  /\ pMode = "service"
  /\ LET hasId == Has(pInput.config, "id")
     IN /\ pConfig' = IF hasId THEN pInput.config ELSE pConfig
        /\ pPc' = IF hasId THEN "generate" ELSE "ended"
        /\ pOutcome' = IF hasId THEN pOutcome ELSE Ended(pMode, FALSE)
        /\ pError' = IF hasId THEN pError
                     ELSE "Configuration must have an ID"
  /\ UNCHANGED <<pMode, pInput, pOptions, pChecked, pWritten,
                 otherThanPipe>>

\* generateLeaderboard: fs.ensureDir(leaderboardDir)
EnsureDir ==
  /\ pPc = "generate"
  /\ pWritten' = Append(pWritten, "leaderboard directory")
  /\ pPc' = AfterStep(pPc, pOptions.skipNavigation)
  /\ pOutcome' = OutcomeAt(pPc')
  /\ UNCHANGED <<pMode, pInput, pOptions, pConfig, pChecked, pError,
                 otherThanPipe>>

\* A variant of the failing render step that leaves a partial index.html
\* behind.
RenderFailsPartial ==
  /\ pPc = "render"
  /\ pWritten' = Append(pWritten, "index.html")
  /\ pPc' = "ended"
  /\ pOutcome' = Ended(pMode, FALSE)
  /\ pError' = "Template rendering failed"
  /\ UNCHANGED <<pMode, pInput, pOptions, pConfig, pChecked, otherThanPipe>>

\* generateHtmlFile: renderTemplate throws (the template is missing, or
\* compiling or running it throws); its catch wraps the error, the callers
\* pass it on, the entry point reports it.
RenderFails ==
  /\ pPc = "render"
  /\ pPc' = "ended"
  /\ pOutcome' = Ended(pMode, FALSE)
  /\ pError' = "Template rendering failed"
  /\ UNCHANGED <<pMode, pInput, pOptions, pConfig, pChecked, pWritten,
                 otherThanPipe>>

\* generateHtmlFile: renderTemplate returns, fs.writeFile(htmlPath,
\* renderedHtml)
WriteHtml ==
  /\ pPc = "render"
  /\ pWritten' = Append(pWritten, "index.html")
  /\ pPc' = AfterStep(pPc, pOptions.skipNavigation)
  /\ pOutcome' = OutcomeAt(pPc')
  /\ UNCHANGED <<pMode, pInput, pOptions, pConfig, pChecked, pError,
                 otherThanPipe>>

\* updateDataFile; then the caller goes on to updateNavigation unless
\* --skip-navigation (updateNavigation: false) was given.
UpdateDataFile ==
  /\ pPc = "datastore"
  /\ pWritten' = Append(pWritten, "leaderboard_data.json")
  /\ pPc' = AfterStep(pPc, pOptions.skipNavigation)
  /\ pOutcome' = OutcomeAt(pPc')
  /\ UNCHANGED <<pMode, pInput, pOptions, pConfig, pChecked, pError,
                 otherThanPipe>>

\* updateDataFile throws before its write (the datastore cannot be read or
\* is no JSON, or it cannot be written).
UpdateDataFileFails ==
  /\ pPc = "datastore"
  /\ pPc' = "ended"
  /\ pOutcome' = Ended(pMode, FALSE)
  /\ pError' = "datastore"
  /\ UNCHANGED <<pMode, pInput, pOptions, pConfig, pChecked, pWritten,
                 otherThanPipe>>

\* updateNavigation resolves.
UpdateNavigation ==
  /\ pPc = "navigation"
  /\ pWritten' = Append(pWritten, "site pages")
  /\ pPc' = AfterStep(pPc, pOptions.skipNavigation)
  /\ pOutcome' = OutcomeAt(pPc')
  /\ UNCHANGED <<pMode, pInput, pOptions, pConfig, pChecked, pError,
                 otherThanPipe>>

\* updateNavigation rejects before its first write.
UpdateNavigationFails ==
  /\ pPc = "navigation"
  /\ pPc' = "ended"
  /\ pOutcome' = Ended(pMode, FALSE)
  /\ pError' = "navigation"
  /\ UNCHANGED <<pMode, pInput, pOptions, pConfig, pChecked, pWritten,
                 otherThanPipe>>

\* POST /generate of the chat backend.  The route calls
\* configService.getConfiguration (with a configId) or
\* configService.validateConfiguration (with a config); configService
\* exports neither, the call throws a TypeError and the route answers 500.
\* Without configId and config it answers 400.
ChatGenerate(body) ==
  /\ pPc = "idle"
  /\ pMode' = "chat"
  /\ pInput' = body
  /\ pPc' = "ended"
  /\ pOutcome' = IF body.kind \in {"configId", "config"} THEN "500"
                 ELSE "400"
  /\ UNCHANGED <<pOptions, pConfig, pChecked, pWritten, pError,
                 otherThanPipe>>

\* The bodies of POST /generate.
ChatBodies ==
  {[kind |-> "none", config |-> NoConfig],
   [kind |-> "configId", config |-> NoConfig]}
    \cup {[kind |-> "config", config |-> f.config] :
            f \in {f \in ConfigFiles : f.kind = "config"}}

\* The configurations generateLeaderboardFiles is called with: with and
\* without an id.  All of them have the members generateHtmlFile reads when
\* it builds the template data.
ServiceConfigs ==
  {BaseConfig, Remove(BaseConfig, <<"id">>),
   Remove(BaseConfig, <<"content">>)}

PipeNext ==
  \/ \E file \in ConfigFiles, skip \in BOOLEAN : StartCliConfig(file, skip)
  \/ \E position \in PositionAnswers, skip \in BOOLEAN, save \in BOOLEAN :
       StartCliInteractive(position, skip, save)
  \/ StartCliBare
  \/ \E config \in ServiceConfigs, nav \in BOOLEAN :
       StartService(config, nav)
  \/ CliLoadConfig
  \/ CliInteractive
  \/ ServiceCheckId
  \/ EnsureDir
  \/ RenderFails
  \/ WriteHtml
  \/ UpdateDataFile
  \/ UpdateDataFileFails
  \/ UpdateNavigation
  \/ UpdateNavigationFails
  \/ \E body \in ChatBodies : ChatGenerate(body)

PipelineSpec == PipeInit /\ [][PipeNext]_vars

\* ------------------------------------------ template engine: renderTemplate
RenderInit ==
  /\ ExtIdle
  /\ ValIdle
  /\ NavIdle
  /\ StoreIdle
  /\ PipeIdle
  /\ RowIdle
  /\ AxisIdle
  /\ rTemplate \in Templates
  /\ rData \in TemplateData
  /\ rOut = NotRendered

\* generateHtmlFile: renderedHtml = await renderTemplate(templatePath,
\* templateData)
CallRenderTemplate ==
  /\ ~rOut.called
  /\ rOut' = renderTemplate(rTemplate, rData)
  /\ UNCHANGED <<rTemplate, rData, rowVars, axisVars, otherThanTpl>>

RenderNext == CallRenderTemplate

RenderSpec == RenderInit /\ [][RenderNext]_vars

\* ------------------------------------ template engine: generateTableRowCode
RowInit ==
  /\ ExtIdle
  /\ ValIdle
  /\ NavIdle
  /\ StoreIdle
  /\ PipeIdle
  /\ RenderIdle
  /\ AxisIdle
  /\ \E column \in Columns : tColumns = <<column>>
  /\ \E value \in EntryValues : tEntry = [id \in ColumnIds |-> value]
  /\ tRow = NoRow

\* generateJavaScript puts generateTableRowCode(config.columns) into the
\* script; the browser runs it for the entry.
RenderRow ==
  /\ ~tRow.rendered
  /\ tRow' = [rendered |-> TRUE,
              cells |-> RunRowCode(generateTableRowCode(tColumns), tEntry,
                                   [id \in ColumnIds |-> ""], << >>)]
  /\ UNCHANGED <<tColumns, tEntry, renderVars, axisVars, otherThanTpl>>

RowNext == RenderRow

RowSpec == RowInit /\ [][RowNext]_vars

\* ------------------------------- template engine: axis ticks, chart markers
AxisInit ==
  /\ ExtIdle
  /\ ValIdle
  /\ NavIdle
  /\ StoreIdle
  /\ PipeIdle
  /\ RenderIdle
  /\ RowIdle
  /\ aAxis \in Axes
  /\ aType \in {"x", "y"}
  /\ aLabels = NoLabels
  /\ aValue \in FieldValues
  /\ aMarker = NoMarker

\* generateHtmlFile: xAxisLabels = generateAxisLabels(xAxis, 'x'),
\* yAxisLabels = generateAxisLabels(yAxis, 'y')
CallGenerateAxisLabels ==
  /\ ~aLabels.called
  /\ aLabels' = [called |-> TRUE,
                 elements |-> generateAxisLabels(aAxis, aType)]
  /\ UNCHANGED <<aAxis, aType, aValue, aMarker, renderVars, rowVars,
                 otherThanTpl>>

\* The browser runs the chart code for an entry whose x and y fields both
\* have the value aValue, on axes that both have the range of aAxis.
PlotEntry ==
  /\ ~aMarker.plotted
  /\ aMarker' = ChartPoint(aAxis, aAxis, aValue, aValue)
  /\ UNCHANGED <<aAxis, aType, aLabels, aValue, renderVars, rowVars,
                 otherThanTpl>>

AxisNext ==
  \/ CallGenerateAxisLabels
  \/ PlotEntry

AxisSpec == AxisInit /\ [][AxisNext]_vars

\* ------------------------------------------- the schema's constraints, flat
\* What §4.1 of the specification and lib/schema.js require, constraint by
\* constraint: each row names where it applies ("*" stands for any array
\* index or any category key) and what it demands there.  The claims about
\* the validator compare its answer with this list.
WantedTypes ==
  {<<<<>>, "object">>,
   <<<<"id">>, "string">>,
   <<<<"title">>, "string">>,
   <<<<"shortDescription">>, "string">>,
   <<<<"longDescription">>, "string">>,
   <<<<"customCss">>, "string">>,
   <<<<"navigation">>, "object">>,
   <<<<"navigation", "position">>, "integer">>,
   <<<<"initialStats">>, "object">>,
   <<<<"columns">>, "array">>,
   <<<<"columns", "*">>, "object">>,
   <<<<"columns", "*", "id">>, "string">>,
   <<<<"columns", "*", "name">>, "string">>,
   <<<<"columns", "*", "type">>, "string">>,
   <<<<"columns", "*", "width">>, "string">>,
   <<<<"columns", "*", "className">>, "string">>,
   <<<<"columns", "*", "sortDirection">>, "string">>,
   <<<<"columns", "*", "sortable">>, "boolean">>,
   <<<<"columns", "*", "defaultSort">>, "boolean">>,
   <<<<"columns", "*", "formatting">>, "object">>,
   <<<<"columns", "*", "formatting", "thresholds">>, "array">>,
   <<<<"columns", "*", "formatting", "thresholds", "*">>, "object">>,
   <<<<"columns", "*", "formatting", "thresholds", "*", "value">>, "number">>,
   <<<<"columns", "*", "formatting", "thresholds", "*", "class">>, "string">>,
   <<<<"initialEntries">>, "array">>,
   <<<<"initialEntries", "*">>, "object">>,
   <<<<"visualization">>, "object">>,
   <<<<"visualization", "type">>, "string">>,
   <<<<"visualization", "xAxis">>, "object">>,
   <<<<"visualization", "xAxis", "field">>, "string">>,
   <<<<"visualization", "xAxis", "label">>, "string">>,
   <<<<"visualization", "xAxis", "min">>, "number">>,
   <<<<"visualization", "xAxis", "max">>, "number">>,
   <<<<"visualization", "xAxis", "ticks">>, "array">>,
   <<<<"visualization", "xAxis", "ticks", "*">>, "number">>,
   <<<<"visualization", "xAxis", "tickLabels">>, "array">>,
   <<<<"visualization", "xAxis", "tickLabels", "*">>, "string">>,
   <<<<"visualization", "yAxis">>, "object">>,
   <<<<"visualization", "yAxis", "field">>, "string">>,
   <<<<"visualization", "yAxis", "label">>, "string">>,
   <<<<"visualization", "yAxis", "min">>, "number">>,
   <<<<"visualization", "yAxis", "max">>, "number">>,
   <<<<"visualization", "yAxis", "ticks">>, "array">>,
   <<<<"visualization", "yAxis", "ticks", "*">>, "number">>,
   <<<<"visualization", "yAxis", "tickLabels">>, "array">>,
   <<<<"visualization", "yAxis", "tickLabels", "*">>, "string">>,
   <<<<"visualization", "dataPoints">>, "object">>,
   <<<<"visualization", "dataPoints", "categoryField">>, "string">>,
   <<<<"visualization", "dataPoints", "categories">>, "object">>,
   <<<<"visualization", "dataPoints", "categories", "*">>, "object">>,
   <<<<"visualization", "dataPoints", "categories", "*", "shape">>, "string">>,
   <<<<"visualization", "dataPoints", "categories", "*", "color">>, "string">>,
   <<<<"visualization", "dataPoints", "categories", "*", "label">>, "string">>,
   <<<<"visualization", "referenceLine">>, "object">>,
   <<<<"visualization", "referenceLine", "x">>, "number">>,
   <<<<"visualization", "referenceLine", "y">>, "number">>,
   <<<<"visualization", "referenceLine", "label">>, "string">>,
   <<<<"visualization", "referenceLine", "style">>, "string">>,
   <<<<"content">>, "object">>,
   <<<<"content", "sections">>, "array">>,
   <<<<"content", "sections", "*">>, "object">>,
   <<<<"content", "sections", "*", "title">>, "string">>,
   <<<<"content", "sections", "*", "type">>, "string">>,
   <<<<"content", "sections", "*", "content">>, "string">>,
   <<<<"content", "sections", "*", "cards">>, "array">>,
   <<<<"content", "sections", "*", "cards", "*">>, "object">>,
   <<<<"content", "sections", "*", "cards", "*", "title">>, "string">>,
   <<<<"content", "sections", "*", "cards", "*", "content">>, "string">>}

WantedMembers ==
  {<<<<>>, {"id", "title", "shortDescription", "columns", "visualization", "content"}>>,
   <<<<"columns", "*">>, {"id", "name", "type"}>>,
   <<<<"columns", "*", "formatting", "thresholds", "*">>, {"value", "class"}>>,
   <<<<"visualization">>, {"type", "xAxis", "yAxis", "dataPoints"}>>,
   <<<<"visualization", "xAxis">>, {"field", "label"}>>,
   <<<<"visualization", "yAxis">>, {"field", "label"}>>,
   <<<<"visualization", "dataPoints">>, {"categoryField", "categories"}>>,
   <<<<"visualization", "dataPoints", "categories", "*">>, {"shape", "color", "label"}>>,
   <<<<"content">>, {"sections"}>>,
   <<<<"content", "sections", "*">>, {"title", "type"}>>,
   <<<<"content", "sections", "*", "cards", "*">>, {"title", "content"}>>}

WantedEnums ==
  {<<<<"columns", "*", "type">>, {"number", "text", "percentage", "time", "hardware"}>>,
   <<<<"columns", "*", "sortDirection">>, {"asc", "desc"}>>,
   <<<<"visualization", "type">>, {"scatter", "bar", "line"}>>,
   <<<<"visualization", "dataPoints", "categories", "*", "shape">>, {"circle", "square", "triangle"}>>,
   <<<<"visualization", "referenceLine", "style">>, {"solid", "dashed", "dotted"}>>,
   <<<<"content", "sections", "*", "type">>, {"text", "cards", "grid"}>>}

Matches(pattern, path) ==
  /\ Len(pattern) = Len(path)
  /\ \A i \in 1..Len(path) : pattern[i] = "*" \/ pattern[i] = path[i]

Violation(path, keyword, param) ==
  [instancePath |-> path, keyword |-> keyword, param |-> param]

\* Every constraint the configuration c violates, as the place, the keyword
\* and the keyword's parameter.
Violations(c) ==
  LET places == PathsOf(c) \cup {<< >>} IN
    {Violation(p, "type", r[2]) :
       <<p, r>> \in {<<p, r>> \in places \X WantedTypes :
                       Matches(r[1], p) /\ ~TypeOk(r[2], Get(c, p))}}
    \cup
    UNION {{Violation(p, "required", f) : f \in r[2] \ DOMAIN Get(c, p).o} :
       <<p, r>> \in {<<p, r>> \in places \X WantedMembers :
                       Matches(r[1], p) /\ IsObj(Get(c, p))}}
    \cup
    {Violation(p, "enum", "") :
       <<p, r>> \in {<<p, r>> \in places \X WantedEnums :
                       /\ Matches(r[1], p)
                       /\ ~(IsStr(Get(c, p)) /\ Get(c, p).s \in r[2])}}
    \cup
    {Violation(p, "pattern", "^[a-z0-9_-]+$") :
       p \in {p \in places : /\ p = <<"id">>
                             /\ IsStr(Get(c, p))
                             /\ Get(c, p).s \notin IdPatternMatches}}
    \cup
    {Violation(p, "minItems", "") :
       p \in {p \in places : /\ p = <<"columns">>
                             /\ IsArr(Get(c, p))
                             /\ Len(Get(c, p).a) < 1}}

\* How many of the returned errors report violation v.
Reports(errors, v) ==
  Cardinality({i \in 1..Len(errors.list) :
                 /\ errors.list[i].instancePath = v.instancePath
                 /\ errors.list[i].keyword = v.keyword
                 /\ errors.list[i].param = v.param})

\* C9: one call of the validator on a configuration that violates the schema
\* returns isValid = false and an error list that reports every violated
\* constraint, not only the first one; each error carries its field path
\* and a message.
C9_AllErrorsCollected ==
  LET violated == Violations(vcfg) IN
  (vres.called /\ violated # {}) =>
    /\ ~vres.isValid
    /\ ~vres.errors.null
    /\ \A v \in violated : Reports(vres.errors, v) >= 1
    /\ \A i \in 1..Len(vres.errors.list) :
         /\ Exists(vcfg, vres.errors.list[i].instancePath)
         /\ vres.errors.list[i].message[1] # ""
    /\ Len(formatValidationErrors(vres.errors)) = Len(vres.errors.list)

\* C9's case: the validated configuration violates several constraints at
\* different places and several errors came back.
C9_Witness ==
  /\ vres.called
  /\ Cardinality(Violations(vcfg)) >= 2
  /\ Cardinality({v.instancePath : v \in Violations(vcfg)}) >= 2
  /\ Len(vres.errors.list) >= 2

\* C10: a configuration that satisfies the schema is answered isValid = true
\* with no errors (the code returns null for the list, which
\* formatValidationErrors prints as nothing); a configuration in which an
\* object lacks a member the schema requires of it, at the top level or
\* nested, gets exactly one error for that member: the "required" error at
\* the object's path that names the missing member.
C10_ValidAndRequired ==
  LET violated == Violations(vcfg) IN
  vres.called =>
    /\ violated = {} =>
         /\ vres.isValid
         /\ vres.errors.null
         /\ vres.errors.list = << >>
         /\ formatValidationErrors(vres.errors) = << >>
    /\ \A v \in violated :
         v.keyword = "required" =>
           /\ ~vres.isValid
           /\ Reports(vres.errors, v) = 1
           /\ Cardinality({i \in 1..Len(vres.errors.list) :
                 /\ vres.errors.list[i].instancePath = v.instancePath
                 /\ vres.errors.list[i].message
                      = <<"must have required property", v.param>>}) = 1

\* C10's cases: a valid configuration other than the base one was accepted,
\* and a nested required member was missing and reported.
C10_Witness ==
  /\ vres.called
  /\ \E v \in Violations(vcfg) :
       /\ v.keyword = "required"
       /\ Len(v.instancePath) >= 2
       /\ Reports(vres.errors, v) = 1

C10_WitnessValid ==
  vres.called /\ vres.isValid /\ vcfg # BaseConfig

\* ------------------------------------------------ navigation sync: claims
\* How many links a document holds, and how many with a given text.
LinkCount(content) ==
  Cardinality({i \in 1..Len(content) : content[i].k = "li"})

TitleLinkCount(content, title) ==
  Cardinality({i \in 1..Len(content) :
                 content[i].k = "li" /\ content[i].text = title})

\* The link list of a document as the updater reads it.
LinksIn(content) == ParseLinks(findNavigationSection(content).navLinks)

\* The link the updater builds for the file of the last step.
StepLink ==
  [href |-> navStep.relativePath,
   attributes |-> IF navStep.isActive THEN " class=\"active\"" ELSE "",
   text |-> navCfg.title]

\* A relative href resolved against a directory.
RECURSIVE Resolve(_, _)
Resolve(dir, href) ==
  IF href = << >> THEN dir
  ELSE IF Head(href) = ".."
  THEN Resolve(SubSeq(dir, 1, Len(dir) - 1), Tail(href))
  ELSE IF Head(href) = "." THEN Resolve(dir, Tail(href))
  ELSE Resolve(Append(dir, Head(href)), Tail(href))

\* C2: after two syncs in a row with the same configuration, both of which
\* ran to their end, every file the second sync updated holds exactly one
\* link whose text is config.title, and no file has another number of links
\* than it had when the second sync started.
C2_TwoSyncsOneLink ==
  (navPc = "done" /\ navPrevPc = "done" /\ navPrevCfg = navCfg) =>
    /\ \A f \in navUpdated :
         TitleLinkCount(files[f].content, navCfg.title) = 1
    /\ \A f \in SitePaths :
         LinkCount(files[f].content) = LinkCount(navPrevFiles[f].content)

C4_ReplacedInPlace ==
  (navStep.outcome = "updated"
     /\ FindIndex(navStep.links, navCfg.title) # -1) =>
    LET at == FindIndex(navStep.links, navCfg.title) + 1
        after == LinksIn(files[navStep.file].content)
    IN /\ Len(navStep.newLinks) = Len(navStep.links)
       /\ navStep.newLinks[at] = StepLink
       /\ \A j \in 1..Len(navStep.links) :
            j # at => navStep.newLinks[j] = navStep.links[j]
       /\ Len(after) = Len(navStep.links)
       /\ after[at].href = navStep.relativePath
       /\ \A j \in 1..Len(navStep.links) :
            j # at => after[j].href = navStep.links[j].href

\* C4's case: a rerun with another navigation.position on a file whose list
\* holds the link at an index the new position does not name.
C4_Witness ==
  /\ navStep.outcome = "updated"
  /\ navSyncs >= 2
  /\ navCfg.position # navPrevCfg.position
  /\ FindIndex(navStep.links, navCfg.title) \notin {-1, navCfg.position + 4}
  /\ navCfg.position + 4 \in 0..Len(navStep.links)

\* C5 as the specification states it: without a link of that text in the
\* list, the new link is at index position + 4 of the result when
\* navigation.position is set, and last otherwise.
C5_InsertedAtPositionPlus4 ==
  (navStep.outcome = "updated"
     /\ FindIndex(navStep.links, navCfg.title) = -1) =>
    IF navCfg.hasPosition
    THEN /\ navCfg.position + 5 \in 1..Len(navStep.newLinks)
         /\ navStep.newLinks[navCfg.position + 5] = StepLink
    ELSE navStep.newLinks[Len(navStep.newLinks)] = StepLink

\* C5: without a link of that text in a list of n links, the new link is
\* inserted as Array.prototype.splice(position + 4, 0, link) does it: last
\* when navigation.position is not set or position + 4 is n or more, at
\* index position + 4 when that lies in 0..n, and counted from the end of
\* the list (n + position + 4, at least 0) when position + 4 is negative.
\* The other links keep their order.
C5_InsertedAsSpliceDoes ==
  (navStep.outcome = "updated"
     /\ FindIndex(navStep.links, navCfg.title) = -1) =>
    LET n == Len(navStep.links)
        start == navCfg.position + 4
        at == IF ~navCfg.hasPosition THEN n
              ELSE IF start >= n THEN n
              ELSE IF start >= 0 THEN start
              ELSE IF n + start >= 0 THEN n + start
              ELSE 0
    IN /\ Len(navStep.newLinks) = n + 1
       /\ navStep.newLinks[at + 1] = StepLink
       /\ \A j \in 1..n :
            navStep.newLinks[IF j <= at THEN j ELSE j + 1] = navStep.links[j]

\* C5's case: a negative position + 4 that counts from the end of a list.
C5_Witness ==
  /\ navStep.outcome = "updated"
  /\ FindIndex(navStep.links, navCfg.title) = -1
  /\ navCfg.hasPosition
  /\ navCfg.position + 4 < 0
  /\ Len(navStep.links) + navCfg.position + 4 > 0

\* C6: for every candidate file the href of the new leaderboard is
\* leaderboard/<id>/ for a file directly under the root, ../<id>/ for
\* leaderboard/<other>/index.html and one more ../ for each directory
\* below that, and resolved against the directory of the file it is
\* leaderboard/<id>/.
C6_RelativeHref ==
  navStep.outcome \in {"updated", "write failed"} =>
    LET f == navStep.file
        href == navStep.relativePath
    IN /\ Len(f) = 1 => href = <<"leaderboard", navCfg.id>>
       /\ (Len(f) = 3 /\ f[1] = "leaderboard") => href = <<"..", navCfg.id>>
       /\ (Len(f) >= 3 /\ f[1] = "leaderboard") =>
            /\ Len(href) = Len(f) - 1
            /\ \A i \in 1..(Len(href) - 1) : href[i] = ".."
            /\ href[Len(href)] = navCfg.id
       /\ Resolve(SubSeq(f, 1, Len(f) - 1), href)
            = <<"leaderboard", navCfg.id>>
       /\ \E i \in 1..Len(navStep.newLinks) : navStep.newLinks[i].href = href

\* C6's case: a page two directories below leaderboard/ was updated.
C6_Witness ==
  /\ navStep.outcome = "updated"
  /\ Len(navStep.file) >= 4
  /\ navStep.relativePath = <<"..", "..", navCfg.id>>

\* ------------------------------------------------------ datastore: claims
\* An entry without its two dates.
WithoutDates(entry) ==
  [entry EXCEPT !.metadata.created = 0, !.metadata.lastUpdated = 0]

\* The runs that have built their document.
Built == {r \in Runs : runs[r].pc \in {"writing", "done"}}

\* C7: a run that read a document holding an entry for its id puts in its
\* place the record built from its configuration alone: the six members
\* the generator writes and no other, metadata with both dates set to the
\* day of the run (created too), stats and entries from the configuration
\* or empty; every other member of the document stays as read.  A second
\* run of the same configuration that read what the first one wrote stores
\* an entry equal to the first one's except for the two dates.
C7_EntryReplaced ==
  /\ \A r \in Built :
       HasKey(runs[r].data, runs[r].config.id) =>
         LET c == runs[r].config
             e == Lookup(runs[r].out, c.id)
         IN /\ DOMAIN e = {"metadata", "stats", "columns", "entries",
                           "visualization", "content"}
            /\ e.metadata = [title |-> c.title,
                             description |-> c.shortDescription,
                             created |-> runs[r].date,
                             lastUpdated |-> runs[r].date]
            /\ e.stats = (IF c.hasInitialStats THEN c.initialStats
                          ELSE EmptyObject)
            /\ e.entries = (IF c.hasInitialEntries THEN c.initialEntries
                            ELSE << >>)
            /\ e.columns = c.columns
            /\ e.visualization = c.visualization
            /\ e.content = c.content
            /\ Len(runs[r].out) = Len(runs[r].data)
            /\ \A i \in 1..Len(runs[r].data) :
                 /\ runs[r].out[i].key = runs[r].data[i].key
                 /\ runs[r].data[i].key # c.id =>
                      runs[r].out[i] = runs[r].data[i]
  /\ \A r1, r2 \in Built :
       (/\ r1 # r2
        /\ runs[r1].config = runs[r2].config
        /\ HasKey(runs[r2].data, runs[r2].config.id)
        /\ Lookup(runs[r2].data, runs[r2].config.id)
             = Lookup(runs[r1].out, runs[r1].config.id)) =>
         WithoutDates(Lookup(runs[r2].out, runs[r2].config.id))
           = WithoutDates(Lookup(runs[r1].out, runs[r1].config.id))
  /\ \A r \in Runs :
       (runs[r].pc = "done" /\ writes[Len(writes)].run = r) =>
         store.doc = runs[r].out

\* C7's case: the same configuration was merged twice, a day apart, into a
\* file whose entry for the id held submissions and a hand-written member;
\* the second merge is in the file.
C7_Witness ==
  /\ Len(writes) = 2
  /\ \E r1, r2 \in Runs :
       /\ writes[1].run = r1
       /\ writes[2].run = r2
       /\ runs[r1].config = runs[r2].config
       /\ HasKey(runs[r1].data, runs[r1].config.id)
       /\ "notes" \in DOMAIN Lookup(runs[r1].data, runs[r1].config.id)
       /\ runs[r2].data = writes[1].doc
       /\ runs[r2].date # runs[r1].date
       /\ store.doc = runs[r2].out

\* Two writes of runs for different ids of which the later one was built
\* from a document read before the earlier one was written.
Overlapping(i, j) ==
  /\ i < j
  /\ runs[writes[i].run].config.id # runs[writes[j].run].config.id
  /\ runs[writes[j].run].readAfter < i

\* C8 as the specification states it: when both runs read before either
\* wrote, the document of the later writer holds the later writer's entry
\* and not the earlier writer's entry.
C8_EarlierEntryAbsent ==
  /\ writes # << >> => store.doc = writes[Len(writes)].doc
  /\ \A i, j \in 1..Len(writes) :
       Overlapping(i, j) =>
         LET a == runs[writes[i].run]
             b == runs[writes[j].run]
         IN /\ Lookup(writes[j].doc, b.config.id)
                 = Lookup(b.out, b.config.id)
            /\ \/ ~HasKey(writes[j].doc, a.config.id)
               \/ Lookup(writes[j].doc, a.config.id)
                    # Lookup(writes[i].doc, a.config.id)

\* C8: runs for different ids each read the whole document, set their own
\* member and write the whole document, without a lock; the file is always
\* the document written last.  When the later writer read before the
\* earlier one wrote, the later document holds the later writer's entry
\* and, under the earlier writer's id, what the later writer had read there
\* (nothing if it had read none): the earlier write is lost, nothing of the
\* two writes is merged.
C8_LastWriteWins ==
  /\ writes # << >> => store.doc = writes[Len(writes)].doc
  /\ \A i, j \in 1..Len(writes) :
       Overlapping(i, j) =>
         LET a == runs[writes[i].run]
             b == runs[writes[j].run]
         IN /\ writes[j].doc = b.out
            /\ Lookup(writes[j].doc, b.config.id)
                 = EntryOf(b.config, b.date)
            /\ HasKey(writes[j].doc, a.config.id)
                 = HasKey(b.data, a.config.id)
            /\ HasKey(b.data, a.config.id) =>
                 Lookup(writes[j].doc, a.config.id)
                   = Lookup(b.data, a.config.id)

\* C8's case: both runs read the same document, which held no entry for
\* the earlier writer's id, before either wrote; the earlier writer's entry
\* was in the file and is gone.
C8_Witness ==
  /\ Len(writes) = 2
  /\ Overlapping(1, 2)
  /\ runs[writes[1].run].data = runs[writes[2].run].data
  /\ HasKey(writes[1].doc, runs[writes[1].run].config.id)
  /\ ~HasKey(store.doc, runs[writes[1].run].config.id)
  /\ HasKey(store.doc, runs[writes[2].run].config.id)

\* ---------------------------------------------------- entry points: claims
\* The files of the site a run has created or written: everything but the
\* configuration file the interactive mode may save.
SiteWrites == SelectSeq(pWritten, LAMBDA w : w # "configuration file")

\* C1: however a generation run was started, it creates or writes the
\* leaderboard directory, index.html, the datastore or a site page only
\* after it has checked the configuration against the schema and found it
\* valid, and a configuration that violates the schema causes no write.
C1_NoWriteBeforeValidation ==
  /\ SiteWrites # << >> => pChecked = "valid"
  /\ (pConfig # NoConfig /\ ~validateConfig(pConfig).isValid) =>
       SiteWrites = << >>

\* The artifacts of one generation run, in the order the specification
\* gives them.
StepOrder ==
  <<"leaderboard directory", "index.html", "leaderboard_data.json",
    "site pages">>

C11_WitnessFailure ==
  /\ pPc = "ended"
  /\ pError = "datastore"
  /\ SiteWrites = SubSeq(StepOrder, 1, 2)

\* C12: when renderTemplate throws, the run ends with an error whose
\* message starts with 'Template rendering failed' (exit code 1, or
\* success: false from the service), and it has written neither
\* index.html nor the datastore nor a site page; all it has made is the
\* leaderboard's directory (and, before generation started, the
\* configuration file the interactive mode was asked to save).
C12_RenderFailureWritesNothing ==
  pError = "Template rendering failed" =>
    /\ pPc = "ended"
    /\ pOutcome = Ended(pMode, FALSE)
    /\ \A i \in 1..Len(pWritten) :
         pWritten[i] \notin {"index.html", "leaderboard_data.json",
                             "site pages"}

\* A run that ended because rendering threw.
C12_Witness ==
  /\ pError = "Template rendering failed"
  /\ pPc = "ended"
  /\ pMode \in {"cli --config", "cli --interactive", "service"}

\* ------------------------------------------------- template engine: claims
\* The template with every slot replaced by its value as it is.
RECURSIVE Verbatim(_, _)
Verbatim(parts, data) ==
  IF parts = << >> THEN << >>
  ELSE (IF Head(parts).k = "text" THEN Head(parts).s
        ELSE IF data[Head(parts).name].present
        THEN data[Head(parts).name].value
        ELSE << >>)
       \o Verbatim(Tail(parts), data)

\* C13: the HTML renderTemplate returns is the template with every slot
\* replaced by its value, character for character; a value with '<' and
\* '&' in it, the title included, stands in the HTML unescaped wherever the
\* template names it.
C13_ValuesVerbatim ==
  (rOut.called /\ ~rOut.threw) =>
    /\ rOut.html = Verbatim(rTemplate.parts, rData)
    /\ \A i \in 1..Len(rTemplate.parts) :
         LET part == rTemplate.parts[i] IN
         (part.k = "slot" /\ rData[part.name].present) =>
           FirstIndexOf(rOut.html, rData[part.name].value, 1) # 0

\* A title with '<' and '&' was rendered through {{title}}.
C13_Witness ==
  /\ rOut.called
  /\ ~rOut.threw
  /\ rData["title"].present
  /\ rData["title"].value = <<"A", "<", "B", "&", "C">>
  /\ \E i \in 1..Len(rTemplate.parts) :
       rTemplate.parts[i] = Slot("title")
  /\ FirstIndexOf(rOut.html, <<"A", "<", "B", "&", "C">>, 1) # 0

\* ------------------------------------------ navigation sync: more claims
\* The files updateNavigation visits on a site: what findHtmlFiles returns.
Candidates(site) == rootHtmlFiles(site) \cup leaderboardHtmlFiles(site)

\* The candidates that have a navigation section.
WithNavigation(site) ==
  {p \in Candidates(site) : findNavigationSection(site[p].content).found}

\* C14 as stated: a file navigation sync has written has another content
\* than before; a file whose rebuilt fragment is the old one is not
\* written.
C14_WrittenOnlyIfChanged ==
  \A p \in navUpdated : files[p].content # navPrevFiles[p].content

\* C14, amended: a sync that has run to its end has written every
\* candidate file that has a navigation fragment, also those whose rebuilt
\* fragment is the one already in the file (their content is what it was);
\* it has written no other file.
C14_WrittenWhetherChangedOrNot ==
  /\ navStep.outcome = "updated" => navStep.file \in navUpdated
  /\ navPc = "done" => navUpdated = WithNavigation(navPrevFiles)

\* A second sync with the same configuration has written a file whose
\* content it did not change.
C14_Witness ==
  /\ navPc = "done"
  /\ navSyncs = 2
  /\ navCfg = navPrevCfg
  /\ \E p \in navUpdated : files[p].content = navPrevFiles[p].content

\* The candidates the running (or last) sync has been through.
Visited ==
  Candidates(navPrevFiles) \ {navQueue[i] : i \in 1..Len(navQueue)}

C16_ActiveIffOwnPage ==
  navStep.outcome = "updated" =>
    /\ navStep.isActive <=>
         navStep.file = <<"leaderboard", navCfg.id, "index.html">>
    /\ \E i \in 1..Len(navStep.newLinks) : navStep.newLinks[i] = StepLink

\* The <li><a ...>...</a></li> items of a document, in order.
ItemsOf(content) ==
  LET items == SelectSeq(content, LAMBDA tok : tok.k = "li")
  IN [i \in 1..Len(items) |->
        [href |-> items[i].href, attributes |-> items[i].attributes,
         text |-> items[i].text]]

\* a can be had from b by leaving elements out.
RECURSIVE IsSubsequence(_, _)
IsSubsequence(a, b) ==
  IF a = << >> THEN TRUE
  ELSE IF b = << >> THEN FALSE
  ELSE IF Head(a) = Head(b) THEN IsSubsequence(Tail(a), Tail(b))
  ELSE IsSubsequence(a, Tail(b))

\* C17: the links a file's navigation list held before the sync and whose
\* text is not config.title are all in the list after the sync, each with
\* the href, the attributes and the text it had, in the order they had.
C17_OtherLinksKept ==
  navStep.outcome = "updated" =>
    IsSubsequence(SelectSeq(ItemsOf(navStep.before),
                            LAMBDA link : link.text # navCfg.title),
                  ItemsOf(files[navStep.file].content))

\* The class of the last threshold, in array order, the value satisfies;
\* the empty class when it satisfies none or there is no value.
LastSatisfied(thresholds, value) ==
  LET hits == {i \in 1..Len(thresholds) :
                 value.present /\ thresholds[i].value <= value.n}
  IN IF hits = {} THEN ""
     ELSE thresholds[CHOOSE i \in hits : \A j \in hits : j <= i].class

\* C18 as stated: for every column with formatting.thresholds the cell of
\* the row carries the class of the last threshold, in array order, whose
\* value is <= the row's field value, the empty class if there is none.
C18_LastSatisfiedThreshold ==
  (tRow.rendered /\ HasThresholds(tColumns[1])) =>
    /\ Len(tRow.cells) = 1
    /\ tRow.cells[1].classed
    /\ tRow.cells[1].class =
         LastSatisfied(tColumns[1].formatting.thresholds,
                       tEntry[tColumns[1].id])

\* C18, amended: that is so for every column with thresholds but the
\* column whose id is "rank"; the generated code puts the rank into a rank
\* badge and never looks at the thresholds of that column.
C18_LastSatisfiedUnlessRank ==
  (tRow.rendered /\ HasThresholds(tColumns[1])) =>
    /\ Len(tRow.cells) = 1
    /\ tColumns[1].id # "rank" =>
         /\ tRow.cells[1].classed
         /\ ~tRow.cells[1].badge
         /\ tRow.cells[1].class =
              LastSatisfied(tColumns[1].formatting.thresholds,
                            tEntry[tColumns[1].id])
    /\ tColumns[1].id = "rank" =>
         /\ tRow.cells[1].badge
         /\ ~tRow.cells[1].classed

\* Thresholds [(0, "low"), (50, "high")] and a value of 75 gave "high".
C18_Witness ==
  /\ tRow.rendered
  /\ tColumns[1].id = "score"
  /\ HasThresholds(tColumns[1])
  /\ tColumns[1].formatting.thresholds =
       <<[value |-> 0, class |-> "low"], [value |-> 50, class |-> "high"]>>
  /\ tEntry["score"] = [present |-> TRUE, n |-> 75]
  /\ tRow.cells[1].class = "high"

\* Thresholds out of order: [(50, "high"), (0, "low")] and 75 gave "low".
C18_WitnessOrder ==
  /\ tRow.rendered
  /\ tColumns[1].id = "score"
  /\ HasThresholds(tColumns[1])
  /\ tColumns[1].formatting.thresholds =
       <<[value |-> 50, class |-> "high"], [value |-> 0, class |-> "low"]>>
  /\ tEntry["score"] = [present |-> TRUE, n |-> 75]
  /\ tRow.cells[1].class = "low"

\* ------------------------------------------------ axis ticks, markers: claims
\* The axis has a range to interpolate on.
HasRange(axis) == axis.hasMin /\ axis.hasMax /\ axis.min # axis.max

\* position = base + (value - min) / (max - min) * span, without division.
IsAt(position, base, span, value, axis) ==
  /\ position.kind = "number"
  /\ position.num * (axis.max - axis.min) =
       position.den * (base * (axis.max - axis.min)
                         + (value - axis.min) * span)

Below(p, q) == p.num * q.den < q.num * p.den

\* C19: generateAxisLabels emits nothing unless ticks and tickLabels are
\* both there with the same length, and then one element per pair, in
\* order.  On an axis with a range, a tick of an x axis is at
\* 80 + (t - min) / (max - min) * 670 on the line y = 375 (so 50 on
\* [0, 100] is at 415, the middle of 80..750); a tick of a y axis is at
\* x = 30 and 350 - (t - min) / (max - min) * 300, so that of two ticks on
\* an axis with min < max the higher one has the smaller y.
C19_TicksInterpolated ==
  aLabels.called =>
    LET elements == aLabels.elements
        paired == /\ aAxis.hasTicks
                  /\ aAxis.hasTickLabels
                  /\ Len(aAxis.ticks) = Len(aAxis.tickLabels)
    IN /\ ~paired => elements = << >>
       /\ paired =>
            /\ Len(elements) = Len(aAxis.ticks)
            /\ \A i \in 1..Len(elements) :
                 /\ elements[i].label = aAxis.tickLabels[i]
                 /\ (aType = "x" /\ HasRange(aAxis)) =>
                      /\ IsAt(elements[i].x, 80, 670, aAxis.ticks[i], aAxis)
                      /\ elements[i].y = Frac(375, 1)
                 /\ (aType = "y" /\ HasRange(aAxis)) =>
                      /\ IsAt(elements[i].y, 350, 0 - 300, aAxis.ticks[i],
                              aAxis)
                      /\ elements[i].x = Frac(30, 1)
                 /\ (aType = "x" /\ aAxis.hasMin /\ aAxis.min = 0
                       /\ aAxis.hasMax /\ aAxis.max = 100
                       /\ aAxis.ticks[i] = 50) =>
                      /\ elements[i].x = Frac(415, 1)
                      /\ 2 * elements[i].x.num = (80 + 750) * elements[i].x.den
            /\ \A i, j \in 1..Len(elements) :
                 (aType = "y" /\ HasRange(aAxis) /\ aAxis.min < aAxis.max
                    /\ aAxis.ticks[i] > aAxis.ticks[j]) =>
                   Below(elements[i].y, elements[j].y)

\* The tick 50 of the x axis [0, 100] was placed.
C19_Witness ==
  /\ aLabels.called
  /\ aType = "x"
  /\ aAxis.hasMin /\ aAxis.min = 0
  /\ aAxis.hasMax /\ aAxis.max = 100
  /\ Len(aLabels.elements) = 2
  /\ aAxis.ticks = <<50, 100>>
  /\ aLabels.elements[1].x = Frac(415, 1)

\* Two ticks of a y axis were placed, the higher one further up.
C19_WitnessY ==
  /\ aLabels.called
  /\ aType = "y"
  /\ aAxis.hasMin /\ aAxis.min = 0
  /\ aAxis.hasMax /\ aAxis.max = 100
  /\ aAxis.ticks = <<0, 100>>
  /\ Len(aLabels.elements) = 2
  /\ aLabels.elements[1].y = Frac(350, 1)
  /\ aLabels.elements[2].y = Frac(50, 1)

\* Ticks without as many labels gave no element.
C19_WitnessNothing ==
  /\ aLabels.called
  /\ aAxis.hasTicks
  /\ aAxis.hasTickLabels
  /\ Len(aAxis.ticks) = 2
  /\ Len(aAxis.tickLabels) = 1
  /\ aLabels.elements = << >>

\* C20: for an axis range [min, max] and a value v in it, the marker the
\* generated script draws is at the x of an x-axis tick of value v and at
\* the y of a y-axis tick of value v.
C20_MarkerWhereTickIs ==
  (aMarker.plotted /\ aAxis.hasMin /\ aAxis.hasMax
     /\ aAxis.min < aAxis.max
     /\ aAxis.min <= aValue /\ aValue <= aAxis.max) =>
    /\ aMarker.x = TickPosition(aAxis, "x", aValue)
    /\ aMarker.y = TickPosition(aAxis, "y", aValue)

\* ------------------------------------------------- validator: more claims
\* C21: a configuration validateConfig accepts has a columns array with at
\* least one column, one of them with the id "rank".
C21_AcceptedHasRankColumn ==
  (vres.called /\ vres.isValid) =>
    /\ Has(vcfg, "columns")
    /\ IsArr(vcfg.o["columns"])
    /\ Len(vcfg.o["columns"].a) >= 1
    /\ \E i \in 1..Len(vcfg.o["columns"].a) :
         /\ Has(vcfg.o["columns"].a[i], "id")
         /\ vcfg.o["columns"].a[i].o["id"] = Str("rank")


\* ------------------------------------------- file generator: one whole run
\* The configurations a run is given: valid ones, their title and short
\* description as texts.  The id matches the schema's "^[a-z0-9_-]+$".
GenConfigs ==
  {[id |-> id, title |-> title, shortDescription |-> <<"s", "d">>,
    hasInitialStats |-> has,
    initialStats |-> IF has THEN [t |-> "obj", members |-> <<"total">>]
                     ELSE EmptyObject,
    hasInitialEntries |-> has,
    initialEntries |-> IF has THEN <<"entry 1">> ELSE << >>,
    columns |-> columns, visualization |-> "scatter",
    content |-> "sections"] :
     id \in {"qc-test", "__proto__"},
     title \in {<<"Q", "C">>, <<"A", "<", "B", "&", "C">>},
     has \in BOOLEAN,
     columns \in {<<"rank">>, <<"score", "rank">>}}

\* The same with navigation.position: not set, or an integer.
GenConfigsPlaced ==
  {c @@ [hasPosition |-> FALSE, position |-> 0] : c \in GenConfigs}
    \cup {c @@ [hasPosition |-> TRUE, position |-> p] :
            c \in GenConfigs, p \in (0 - MaxBack)..MaxGenPosition}

\* templates/leaderboard.html: missing, or the hero section of the template
\* of docs/bootstrap-script-design.md.
GenTemplates ==
  {[exists |-> FALSE, wellFormed |-> FALSE, parts |-> << >>],
   [exists |-> TRUE, wellFormed |-> TRUE,
    parts |-> <<Text(<<"<", "h", "1", ">">>), Slot("title"),
                Text(<<"<", "/", "h", "1", ">", "<", "p", ">">>),
                Slot("shortDescription"),
                Text(<<"<", "/", "p", ">">>)>>]}

\* leaderboard_data.json before the run: missing, empty, or holding an
\* entry under another id, under the run's id, or under "__proto__".
GenStores ==
  {[exists |-> FALSE, doc |-> << >>], [exists |-> TRUE, doc |-> << >>]}
    \cup {[exists |-> TRUE, doc |-> <<m>>] :
            m \in OldMembers("other") \cup OldMembers("qc-test")}
    \cup {[exists |-> TRUE,
           doc |-> <<[key |-> "__proto__", value |-> m.value]>>] :
            m \in OldMembers("other")}

\* generateHtmlFile: the members of templateData the template above uses.
TemplateDataOf(config) ==
  [name \in {"title", "shortDescription"} |->
     [present |-> TRUE,
      value |-> IF name = "title" THEN config.title
                ELSE config.shortDescription]]

GenInit ==
  /\ ValIdle
  /\ NavIdle
  /\ StoreIdle
  /\ PipeIdle
  /\ TplIdle
  /\ MergeIdle
  /\ LlmIdle
  /\ ChatIdle
  /\ gConfig \in GenConfigsPlaced
  /\ gTemplate \in GenTemplates
  /\ gDate \in 0..MaxDays
  /\ gPc = "start"
  /\ gDir \in BOOLEAN
  /\ gHtml = [exists |-> FALSE, content |-> << >>]
  /\ gStore \in GenStores
  /\ gLinks = NoLinks

\* generateLeaderboard: await fs.ensureDir(leaderboardDir)
GenEnsureDir ==
  /\ gPc = "start"
  /\ gDir' = TRUE
  /\ gPc' = "html"
  /\ UNCHANGED <<gConfig, gTemplate, gDate, gHtml, gStore, gLinks, otherThanGen>>

GenEnsureDirFails ==
  /\ gPc = "start"
  /\ ~gDir
  /\ gPc' = "threw"
  /\ UNCHANGED <<gConfig, gTemplate, gDate, gDir, gHtml, gStore,
                 gLinks, otherThanGen>>

\* generateHtmlFile: build the template data (generateNavigationLinks
\* among it), render the template with it and write index.html; what
\* renderTemplate throws ends the run.
GenerateHtmlFile ==
  /\ gPc = "html"
  /\ LET rendered == renderTemplate(gTemplate, TemplateDataOf(gConfig))
     IN IF rendered.threw
        THEN gPc' = "threw" /\ UNCHANGED gHtml
        ELSE /\ gHtml' = [exists |-> TRUE, content |-> rendered.html]
             /\ gPc' = "data"
  /\ gLinks' = [built |-> TRUE, links |-> navigationLinkList(gConfig)]
  /\ UNCHANGED <<gConfig, gTemplate, gDate, gDir, gStore, otherThanGen>>

\* fs.writeFile(htmlPath, renderedHtml) fails.
GenerateHtmlFileFails ==
  /\ gPc = "html"
  /\ gPc' = "threw"
  /\ UNCHANGED <<gConfig, gTemplate, gDate, gDir, gHtml, gStore,
                 gLinks, otherThanGen>>

\* updateDataFile, with no other run under way: read the file if it is
\* there, set data[config.id], write the file.
GenUpdateDataFile ==
  /\ gPc = "data"
  /\ LET data == IF gStore.exists THEN gStore.doc ELSE << >>
     IN gStore' = [exists |-> TRUE,
                   doc |-> WriteFile(gStore.doc,
                                     BuildData(data, gConfig, gDate),
                                     gConfig.id)]
  /\ gPc' = "done"
  /\ UNCHANGED <<gConfig, gTemplate, gDate, gDir, gHtml, gLinks,
                 otherThanGen>>

\* Reading, parsing or writing leaderboard_data.json fails.
GenUpdateDataFileFails ==
  /\ gPc = "data"
  /\ gPc' = "threw"
  /\ UNCHANGED <<gConfig, gTemplate, gDate, gDir, gHtml, gStore,
                 gLinks, otherThanGen>>

GenNext ==
  \/ GenEnsureDir
  \/ GenEnsureDirFails
  \/ GenerateHtmlFile
  \/ GenerateHtmlFileFails
  \/ GenUpdateDataFile
  \/ GenUpdateDataFileFails

GenSpec == GenInit /\ [][GenNext]_vars

\* s occurs in text.
Contains(text, s) ==
  \E i \in 0..(Len(text) - Len(s)) : SubSeq(text, i + 1, i + Len(s)) = s

\* C22: after a run of generateLeaderboard that completed for a valid
\* configuration c, leaderboard/<c.id>/index.html exists and contains
\* c.title, and leaderboard_data.json has the key c.id with columns =
\* c.columns, metadata.title = c.title, metadata.description =
\* c.shortDescription, entries = c.initialEntries or [] and stats =
\* c.initialStats or {}.
C22_SuccessLeavesPageAndEntry ==
  gPc = "done" =>
    /\ gDir
    /\ gHtml.exists
    /\ Contains(gHtml.content, gConfig.title)
    /\ gStore.exists
    /\ HasKey(gStore.doc, gConfig.id)
    /\ LET e == Lookup(gStore.doc, gConfig.id)
       IN /\ e.columns = gConfig.columns
          /\ e.metadata.title = gConfig.title
          /\ e.metadata.description = gConfig.shortDescription
          /\ e.entries = (IF gConfig.hasInitialEntries
                          THEN gConfig.initialEntries ELSE << >>)
          /\ e.stats = (IF gConfig.hasInitialStats
                        THEN gConfig.initialStats ELSE EmptyObject)


\* -------------------------------------------------- entry point: exit codes
CliModes == {"cli --config", "cli --interactive", "cli"}

\* C23: the CLI exits with code 0 when loading/validation, generation and
\* (unless --skip-navigation is given) navigation sync all complete; it
\* exits with a non-zero code, an error printed, whenever loading/validation
\* or generation fails; with neither --config nor --interactive it exits
\* non-zero and has written no file.
C23_CliExitCodes ==
  (pPc = "ended" /\ pMode \in CliModes) =>
    /\ pError = "none" =>
         /\ pOutcome = "exit 0"
         /\ SiteWrites = (IF pOptions.skipNavigation
                          THEN SubSeq(StepOrder, 1, 3) ELSE StepOrder)
    /\ (pMode # "cli" /\ pError # "none") => pOutcome = "exit 1"
    /\ pMode = "cli" =>
         /\ pOutcome \notin {"none", "exit 0"}
         /\ pWritten = << >>


\* ------------------------------- template engine: generateNavigationLinks
IsActive(link) == link.attributes = " class=\"active\""

\* The list without its element at 0-based index at.
Without(links, at) ==
  [i \in 1..(Len(links) - 1) |-> links[IF i <= at THEN i ELSE i + 1]]

\* The new link is at 0-based index at of links, it alone is active, and
\* the other links are the baseline links in their order.
NewLinkAt(links, at) ==
  /\ Len(links) = Len(BaselineLinks) + 1
  /\ at + 1 \in 1..Len(links)
  /\ IsActive(links[at + 1])
  /\ links[at + 1].href = <<".">>
  /\ links[at + 1].text = gConfig.title
  /\ \A i \in 1..Len(links) : IsActive(links[i]) => i = at + 1
  /\ Without(links, at) = BaselineLinks

\* Where splice(start, 0, item) puts item in a list of n elements.
SpliceIndex(start, n) ==
  IF start < 0 THEN (IF n + start < 0 THEN 0 ELSE n + start)
  ELSE (IF start > n THEN n ELSE start)

\* C24 as stated: the new link is at index navigation.position + 4 when
\* the position is given and is the last element otherwise, it alone is
\* active, the baseline links keep their order.
C24_NewLinkAtPositionPlus4 ==
  gLinks.built =>
    NewLinkAt(gLinks.links,
              IF gConfig.hasPosition THEN gConfig.position + 4
              ELSE Len(BaselineLinks))

\* C24: the list generateNavigationLinks builds is the four baseline links
\* and the existing-leaderboards link in their order with the new link
\* (text config.title) put in by splice(position + 4, 0, link): at index
\* position + 4 when that is between 0 and 5, last when the position is
\* not given or position + 4 exceeds 5, counted from the end when
\* position + 4 is negative; the new link is active and no other link is.
C24_NewLinkWhereSplicePutsIt ==
  gLinks.built =>
    NewLinkAt(gLinks.links,
              IF gConfig.hasPosition
              THEN SpliceIndex(gConfig.position + 4, Len(BaselineLinks))
              ELSE Len(BaselineLinks))

\* C24's cases: a position beyond the end of the list, a position that
\* makes position + 4 negative, a position inside the list, none.
C24_Witness ==
  /\ gLinks.built
  /\ gConfig.hasPosition
  /\ gConfig.position + 4 > Len(BaselineLinks)
  /\ IsActive(gLinks.links[Len(gLinks.links)])

C24_WitnessNegative ==
  /\ gLinks.built
  /\ gConfig.hasPosition
  /\ gConfig.position + 4 = 0 - 1
  /\ IsActive(gLinks.links[Len(BaselineLinks)])

C24_WitnessInside ==
  /\ gLinks.built
  /\ gConfig.hasPosition
  /\ gConfig.position = 0
  /\ IsActive(gLinks.links[5])


\* ------------------------------- file generator: merges one after another
\* The configurations merged: those of the concurrent runs and one whose id
\* is "__proto__".
MergeConfigs ==
  StoreConfigs
    \cup {[c EXCEPT !.id = "__proto__"] :
            c \in {c \in StoreConfigs : c.id = "other"}}

MergeInit ==
  /\ ValIdle
  /\ NavIdle
  /\ StoreIdle
  /\ PipeIdle
  /\ TplIdle
  /\ GenIdle
  /\ LlmIdle
  /\ ChatIdle
  /\ mStore \in {[exists |-> FALSE, doc |-> << >>]}
                 \cup {[exists |-> TRUE, doc |-> d] : d \in OldDocs}
  /\ mBefore = << >>
  /\ mConfig = NoConfig
  /\ mMerged = << >>

\* updateDataFile(config, baseDir) from its first line to its last, no
\* other run between its read and its write.
Merge(config, date) ==
  /\ Len(mMerged) < MaxMerges
  /\ LET data == IF mStore.exists THEN mStore.doc ELSE << >>
     IN /\ mBefore' = data
        /\ mStore' = [exists |-> TRUE,
                      doc |-> WriteFile(mStore.doc,
                                        BuildData(data, config, date),
                                        config.id)]
  /\ mConfig' = config
  /\ mMerged' = Append(mMerged, config.id)
  /\ UNCHANGED otherThanMerge

MergeNext ==
  \E config \in MergeConfigs, date \in 0..MaxDays : Merge(config, date)

MergeSpec == MergeInit /\ [][MergeNext]_vars

\* The last merge left every member under another key as it was.
OtherEntriesKept ==
  \A i \in 1..Len(mBefore) :
    mBefore[i].key # mConfig.id =>
      /\ HasKey(mStore.doc, mBefore[i].key)
      /\ Lookup(mStore.doc, mBefore[i].key) = mBefore[i].value

\* C26: a merge for config c changes only the entry keyed by c.id: every
\* entry of the document it read whose key differs from c.id is present
\* and unchanged in the document it wrote, and after merges that follow one
\* another without overlapping the datastore has an entry for every id
\* merged so far.
C26_OnlyOwnEntryChanges ==
  mMerged # << >> =>
    /\ OtherEntriesKept
    /\ \A i \in 1..Len(mMerged) : HasKey(mStore.doc, mMerged[i])


\* ------------------------------------------- navigation sync: a second run
\* The navigation list of the document holds a link with that text.
LinkInsideList(content, title) ==
  LET nav == findNavigationSection(content)
  IN /\ nav.found
     /\ \E i \in 1..Len(nav.navLinks) :
          nav.navLinks[i].k = "li" /\ nav.navLinks[i].text = title

\* C27: a sync run to its end leaves, in every file it updated, the new
\* link inside the nav-links list of the navigation fragment (also when the
\* list was empty or held only whitespace); and a second sync with the same
\* configuration leaves every file exactly as the first sync left it.
C27_SecondSyncChangesNothing ==
  /\ navPc = "done" =>
       \A f \in navUpdated : LinkInsideList(files[f].content, navCfg.title)
  /\ (navPc = "done" /\ navPrevPc = "done" /\ navPrevCfg = navCfg) =>
       \A f \in SitePaths : files[f].content = navPrevFiles[f].content


\* ------------------------------------------- chat backend: the LLM service
LlmIds == {"openai", "proxy", "localllm"}

\* providers.has(id), providers.get(id)
IsRegistered(providers, id) ==
  \E i \in 1..Len(providers) : providers[i].id = id

InstanceOf(providers, id) ==
  providers[CHOOSE i \in 1..Len(providers) : providers[i].id = id].inst

\* providers.set(id, provider): a key the Map has keeps its place.
MapSet(providers, id, inst) ==
  IF IsRegistered(providers, id)
  THEN [i \in 1..Len(providers) |->
          IF providers[i].id = id THEN [id |-> id, inst |-> inst]
          ELSE providers[i]]
  ELSE Append(providers, [id |-> id, inst |-> inst])

\* providers.delete(id)
MapDelete(providers, id) == SelectSeq(providers, LAMBDA p : p.id # id)

\* registerProvider(id, config) on the service state s = [providers, inst,
\* created, threw]: a new instance is made and initialized; "active" and
\* "inactive" are what its checkAvailability said, "throws" is an
\* initialize that threw (a missing API key, an unsupported type), after
\* which the instance is not put into the Map.
Registered(s, id, outcome) ==
  LET n == s.created + 1
  IN IF outcome = "throws"
     THEN [s EXCEPT !.created = n, !.threw = TRUE,
                    !.inst[n] = [id |-> id, available |-> FALSE,
                                 status |-> "error"]]
     ELSE [s EXCEPT !.created = n,
                    !.inst[n] = [id |-> id,
                                 available |-> (outcome = "active"),
                                 status |-> outcome],
                    !.providers = MapSet(s.providers, id, n)]

\* initializeLLMService: for (const [id, providerConfig] of
\* Object.entries(config.providers)) await registerProvider(...), which
\* stops at the first that throws.
RECURSIVE RegisteredAll(_, _)
RegisteredAll(s, list) ==
  IF list = << >> \/ s.threw THEN s
  ELSE RegisteredAll(Registered(s, Head(list).id, Head(list).outcome),
                     Tail(list))

ServiceState ==
  [providers |-> lProviders, inst |-> lInst, created |-> lCreated,
   threw |-> FALSE]

\* config/llm.json as initializeLLMService reads it.
LlmConfigs ==
  {[providers |-> <<[id |-> "openai", outcome |-> first],
                    [id |-> "proxy", outcome |-> second]>>,
    defaultProvider |-> default,
    hasFallbackOrder |-> fallback.set,
    fallbackOrder |-> fallback.order] :
     first \in {"active", "inactive"},
     second \in {"active", "throws"},
     default \in {"proxy", "missing"},
     fallback \in {[set |-> FALSE, order |-> << >>],
                   [set |-> TRUE, order |-> << >>],
                   [set |-> TRUE,
                    order |-> <<"openai", "proxy", "localllm">>],
                   [set |-> TRUE, order |-> <<"localllm", "proxy",
                                             "openai">>]}}

LlmInit ==
  /\ ValIdle
  /\ NavIdle
  /\ StoreIdle
  /\ PipeIdle
  /\ TplIdle
  /\ GenIdle
  /\ MergeIdle
  /\ LlmIdle
  /\ ChatIdle

NoCall == lCall.pc = "idle"

\* initializeLLMService(options)
InitializeLLMService(config) ==
  /\ NoCall
  /\ lCreated + Len(config.providers) <= MaxInstances
  /\ LET s == RegisteredAll(ServiceState, config.providers)
     IN /\ lProviders' = s.providers
        /\ lInst' = s.inst
        /\ lCreated' = s.created
        /\ lDefault' =
             IF s.threw THEN lDefault
             ELSE IF /\ config.defaultProvider # ""
                     /\ IsRegistered(s.providers, config.defaultProvider)
             THEN InstanceOf(s.providers, config.defaultProvider)
             ELSE IF Len(s.providers) > 0 THEN s.providers[1].inst
             ELSE lDefault
        /\ lFallback' =
             IF ~s.threw /\ config.hasFallbackOrder
             THEN [set |-> TRUE, order |-> config.fallbackOrder]
             ELSE lFallback
  /\ UNCHANGED <<lGone, lCall, otherThanLlm>>

\* registerProvider(id, config), called on its own
RegisterProvider(id, outcome) ==
  /\ NoCall
  /\ lCreated < MaxInstances
  /\ LET s == Registered(ServiceState, id, outcome)
     IN /\ lProviders' = s.providers
        /\ lInst' = s.inst
        /\ lCreated' = s.created
  /\ UNCHANGED <<lDefault, lFallback, lGone, lCall, otherThanLlm>>

\* deleteProvider(id): an unknown id throws; otherwise the provider is shut
\* down and removed from the Map; defaultProvider is not looked at.
DeleteProvider(id) ==
  /\ NoCall
  /\ IF IsRegistered(lProviders, id)
     THEN LET n == InstanceOf(lProviders, id)
          IN /\ lInst' = [lInst EXCEPT ![n].available = FALSE,
                                       ![n].status = "inactive"]
             /\ lProviders' = MapDelete(lProviders, id)
             /\ lGone' = lGone \cup {n}
     ELSE UNCHANGED <<lInst, lProviders, lGone>>
  /\ UNCHANGED <<lCreated, lDefault, lFallback, lCall, otherThanLlm>>

\* setDefaultProvider(providerId): an unknown id throws.
SetDefaultProvider(id) ==
  /\ NoCall
  /\ lDefault' = IF IsRegistered(lProviders, id)
                 THEN InstanceOf(lProviders, id) ELSE lDefault
  /\ UNCHANGED <<lProviders, lInst, lCreated, lFallback, lGone, lCall,
                 otherThanLlm>>

\* shutdownLLMService: every provider of the Map is shut down, the Map is
\* cleared, defaultProvider = null.
ShutdownLLMService ==
  /\ NoCall
  /\ lInst' = [n \in 1..MaxInstances |->
                 IF \E i \in 1..Len(lProviders) : lProviders[i].inst = n
                 THEN [lInst[n] EXCEPT !.available = FALSE,
                                       !.status = "inactive"]
                 ELSE lInst[n]]
  /\ lProviders' = << >>
  /\ lDefault' = 0
  /\ UNCHANGED <<lCreated, lFallback, lGone, lCall, otherThanLlm>>

\* The provider the fallback loop takes at its k-th turn, and a loop that
\* goes through the order from its end.
fallbackCandidateFromEnd(order, k) == order[Len(order) + 1 - k]

fallbackCandidate(order, k) == order[k]

\* processMessage(providerId, messages, options) up to the end of its first
\* attempt: the provider is looked up (getProvider or getDefaultProvider)
\* and asked; ok says whether its _processMessage succeeds.  What is thrown
\* on the way is thrown on, unless options.useFallback and a fallback order
\* are there.
ProcessMessage(providerId, useFallback, ok) ==
  /\ NoCall
  /\ LET found == IF providerId = "default" THEN lDefault # 0
                  ELSE IsRegistered(lProviders, providerId)
         n == IF ~found THEN 0
              ELSE IF providerId = "default" THEN lDefault
              ELSE InstanceOf(lProviders, providerId)
         answered == found /\ lInst[n].available /\ ok
         call == [IdleCall EXCEPT !.providerId = providerId,
                                  !.useFallback = useFallback]
     IN lCall' =
          IF answered THEN [call EXCEPT !.pc = "returned", !.result = n]
          ELSE IF useFallback /\ lFallback.set
          THEN [call EXCEPT !.pc = "fallback", !.fellBack = TRUE,
                            !.order = lFallback.order]
          ELSE [call EXCEPT !.pc = "threw",
                            !.error = IF ~found THEN "not found"
                                      ELSE "provider error"]
  /\ UNCHANGED <<lProviders, lInst, lCreated, lDefault, lFallback, lGone,
                 otherThanLlm>>

\* processMessageWithFallback: one turn of its loop.  A provider the Map
\* lacks is passed over; isAvailable answers false for status 'error' and
\* otherwise what checkAvailability says (a throw makes the status
\* 'error'); an available provider is asked, and its answer is returned or
\* its error caught.
FallbackTurn(check, ok) ==
  /\ lCall.pc = "fallback"
  /\ Len(lCall.tried) < Len(lCall.order)
  /\ LET id == fallbackCandidate(lCall.order, Len(lCall.tried) + 1)
         registered == IsRegistered(lProviders, id)
         n == IF registered THEN InstanceOf(lProviders, id) ELSE 0
         asked == registered /\ lInst[n].status # "error"
         available == asked /\ check = "available"
         turn == [id |-> id, registered |-> registered,
                  available |-> available, called |-> available,
                  ok |-> available /\ ok, inst |-> n]
     IN /\ lInst' = IF asked
                    THEN [lInst EXCEPT
                            ![n].available = available,
                            ![n].status = IF check = "throws" THEN "error"
                                          ELSE IF available THEN "active"
                                          ELSE "inactive"]
                    ELSE lInst
        /\ lCall' = [lCall EXCEPT
                       !.tried = Append(lCall.tried, turn),
                       !.pc = IF turn.ok THEN "returned" ELSE "fallback",
                       !.result = IF turn.ok THEN n ELSE 0]
  /\ UNCHANGED <<lProviders, lCreated, lDefault, lFallback, lGone,
                 otherThanLlm>>

\* processMessageWithFallback: the loop is over, throw new Error(`All
\* providers failed. Last error: ...`)
FallbackExhausted ==
  /\ lCall.pc = "fallback"
  /\ Len(lCall.tried) = Len(lCall.order)
  /\ lCall' = [lCall EXCEPT !.pc = "threw", !.error = "All providers failed"]
  /\ UNCHANGED <<lProviders, lInst, lCreated, lDefault, lFallback, lGone,
                 otherThanLlm>>

\* The caller has its answer or its error.
CallSettled ==
  /\ lCall.pc \in {"returned", "threw"}
  /\ lCall' = IdleCall
  /\ UNCHANGED <<lProviders, lInst, lCreated, lDefault, lFallback, lGone,
                 otherThanLlm>>

LlmNext ==
  \/ \E config \in LlmConfigs : InitializeLLMService(config)
  \/ \E id \in LlmIds, outcome \in {"active", "inactive", "throws"} :
       RegisterProvider(id, outcome)
  \/ \E id \in LlmIds : DeleteProvider(id)
  \/ \E id \in LlmIds : SetDefaultProvider(id)
  \/ ShutdownLLMService
  \/ \E providerId \in LlmIds \cup {"default"}, useFallback \in BOOLEAN,
        ok \in BOOLEAN : ProcessMessage(providerId, useFallback, ok)
  \/ \E check \in {"available", "unavailable", "throws"}, ok \in BOOLEAN :
       FallbackTurn(check, ok)
  \/ FallbackExhausted
  \/ CallSettled

LlmSpec == LlmInit /\ [][LlmNext]_vars

\* C25: when processMessage falls back (options.useFallback is set, a
\* fallback order is configured and the selected or default provider
\* failed), the providers of the fallback order are taken one at a time in exactly that order; a provider is asked
\* only if it is registered and reports itself available; the call returns
\* the answer of the first provider of the order that is registered,
\* available and answers, no provider after it is taken; and if none
\* answers the call throws 'All providers failed'.
C25_FallbackInOrder ==
  lCall.fellBack =>
    LET tried == lCall.tried
        Answers(k) == tried[k].registered /\ tried[k].available /\ tried[k].ok
    IN /\ Len(tried) <= Len(lCall.order)
       /\ \A k \in 1..Len(tried) :
            /\ tried[k].id = lCall.order[k]
            /\ tried[k].called = (tried[k].registered /\ tried[k].available)
            /\ Answers(k) => k = Len(tried)
       /\ lCall.pc \in {"fallback", "returned", "threw"}
       /\ lCall.pc = "returned" =>
            /\ tried # << >>
            /\ Answers(Len(tried))
            /\ lCall.result = tried[Len(tried)].inst
            /\ lInst[lCall.result].id = lCall.order[Len(tried)]
       /\ lCall.pc = "fallback" => \A k \in 1..Len(tried) : ~Answers(k)
       /\ lCall.pc = "threw" =>
            /\ Len(tried) = Len(lCall.order)
            /\ \A k \in 1..Len(tried) : ~Answers(k)
            /\ lCall.error = "All providers failed"

\* C25's case: the selected provider failed, the first provider of the
\* order is not registered, the second was asked and failed, the third
\* answered.
C25_Witness ==
  /\ lCall.pc = "returned"
  /\ lCall.fellBack
  /\ Len(lCall.tried) = 3
  /\ ~lCall.tried[1].registered
  /\ lCall.tried[2].called
  /\ ~lCall.tried[2].ok
  /\ lCall.tried[3].ok

C25_WitnessAllFailed ==
  /\ lCall.pc = "threw"
  /\ lCall.fellBack
  /\ Len(lCall.tried) = 3
  /\ \E k \in 1..3 : lCall.tried[k].called

\* C28: defaultProvider is null or a provider that is in the Map, and it is
\* never a provider that deleteProvider has shut down and removed.
C28_DefaultIsRegistered ==
  /\ lDefault = 0 \/ \E i \in 1..Len(lProviders) : lProviders[i].inst = lDefault
  /\ lDefault \notin lGone


\* ------------------------------------------- chat backend: the chat service
\* STAGES, in the order of the conversation.
STAGES ==
  <<"welcome", "project_understanding", "basic_configuration",
    "column_definition", "visualization_setup", "content_creation",
    "final_review", "generation">>

StageIndex(stage) == CHOOSE k \in 1..Len(STAGES) : STAGES[k] = stage

\* buildContext(session): hasBasicInfo
hasBasicInfo(config) ==
  config.id /\ config.title /\ config.shortDescription

\* determineNextStage(session, currentStage), session.config = config
determineNextStage(config, currentStage) ==
  IF currentStage = "welcome" /\ (config.title \/ config.shortDescription)
  THEN "project_understanding"
  ELSE IF /\ currentStage = "project_understanding"
          /\ config.title /\ config.shortDescription
  THEN "basic_configuration"
  ELSE IF currentStage = "basic_configuration" /\ hasBasicInfo(config)
  THEN "column_definition"
  ELSE IF currentStage = "column_definition" /\ config.columns
  THEN "visualization_setup"
  ELSE IF currentStage = "visualization_setup" /\ config.visualization
  THEN "content_creation"
  ELSE IF currentStage = "content_creation" /\ config.content
  THEN "final_review"
  ELSE IF /\ currentStage = "final_review"
          /\ hasBasicInfo(config)
          /\ config.columns /\ config.visualization /\ config.content
  THEN "generation"
  ELSE currentStage

\* configService.updateConfig(currentConfig, updates): a copy of the
\* configuration with the members of updates put in.
updateConfig(currentConfig, updates) ==
  [f \in DOMAIN currentConfig |->
     IF f \in DOMAIN updates THEN updates[f] ELSE currentConfig[f]]

\* What llmResponse.metadata.extractedConfig may be: nothing, an empty
\* object, or members that are given a value or are emptied.
Extracts ==
  {NoExtract}
    \cup {[present |-> TRUE, config |-> u] :
            u \in {<< >>,
                   [f \in {"title"} |-> TRUE],
                   [f \in {"shortDescription"} |-> TRUE],
                   [f \in {"id", "title", "shortDescription"} |-> TRUE],
                   [f \in {"content"} |-> TRUE],
                   [f \in {"title"} |-> FALSE]}}

\* The sessions the service may hold when it has started: a new one, and
\* sessions loaded from their files.
StartSessions ==
  {NewSession,
   [NewSession EXCEPT
      !.messages = <<"assistant", "user", "assistant">>,
      !.config = [id |-> TRUE, title |-> TRUE, shortDescription |-> TRUE,
                  columns |-> TRUE, visualization |-> TRUE,
                  content |-> FALSE],
      !.currentStage = "column_definition",
      !.completedStages = SubSeq(STAGES, 1, 3)]}

ChatInit ==
  /\ ValIdle
  /\ NavIdle
  /\ StoreIdle
  /\ PipeIdle
  /\ TplIdle
  /\ GenIdle
  /\ MergeIdle
  /\ LlmIdle
  /\ sMem \in StartSessions
  /\ sDisk = sMem
  /\ sCalls = [c \in SendCalls |-> IdleSend]
  /\ sSends = 0

InFlight(c) == sCalls[c].pc \in {"llm", "saving"}

\* sendMessage up to its await of llmService.processMessage: the user
\* message is pushed onto the session of the Map, updatedAt is set, the
\* current stage is read.
SendMessage(c, providerId) ==
  /\ sCalls[c].pc = "idle"
  /\ sSends < MaxSends
  /\ sSends' = sSends + 1
  /\ sMem' = [sMem EXCEPT !.messages = Append(@, "user"),
                          !.updatedAt = sSends + 1]
  /\ sCalls' =
       [d \in SendCalls |->
          IF d = c
          THEN [pc |-> "llm",
                currentStage |-> sMem.currentStage,
                providerId |-> IF providerId # "null" THEN providerId
                               ELSE sMem.activeProvider,
                before |-> sMem,
                overlapped |-> \E e \in SendCalls : InFlight(e),
                reason |-> "none"]
          ELSE IF InFlight(d) THEN [sCalls[d] EXCEPT !.overlapped = TRUE]
          ELSE sCalls[d]]
  /\ UNCHANGED <<sDisk, otherThanChat>>

\* The session after line 274, for a response with that extracted
\* configuration to a call that had read that stage.
AfterResponse(session, call, extracted) ==
  LET answered ==
        [session EXCEPT
           !.messages = Append(@, "assistant"),
           !.activeProvider = IF call.providerId # "null"
                              THEN call.providerId ELSE @]
      config == updateConfig(session.config, extracted.config)
      newStage == determineNextStage(config, call.currentStage)
  IN IF ~extracted.present THEN answered
     ELSE IF newStage = call.currentStage
     THEN [answered EXCEPT !.config = config]
     ELSE [answered EXCEPT
             !.config = config,
             !.currentStage = newStage,
             !.completedStages =
                IF \E k \in 1..Len(@) : @[k] = call.currentStage THEN @
                ELSE Append(@, call.currentStage)]

\* processMessage resolves: the assistant message is pushed, the active
\* provider set, the extracted configuration put in and the stage moved on
\* from the stage read before the await; next is the await of saveSession.
LlmAnswers(c, extracted) ==
  /\ sCalls[c].pc = "llm"
  /\ sMem' = AfterResponse(sMem, sCalls[c], extracted)
  /\ sCalls' = [sCalls EXCEPT ![c].pc = "saving"]
  /\ UNCHANGED <<sDisk, sSends, otherThanChat>>

\* processMessage rejects (the provider and every fallback failed): the
\* catch of sendMessage logs the error and throws it on.
LlmFails(c) ==
  /\ sCalls[c].pc = "llm"
  /\ sCalls' = [sCalls EXCEPT ![c].pc = "threw", ![c].reason = "llm"]
  /\ UNCHANGED <<sMem, sDisk, sSends, otherThanChat>>

\* saveSession: fs.writeJson(sessionFile, session)
SessionSaved(c) ==
  /\ sCalls[c].pc = "saving"
  /\ sDisk' = sMem
  /\ sCalls' = [sCalls EXCEPT ![c].pc = "returned"]
  /\ UNCHANGED <<sMem, sSends, otherThanChat>>

SaveFails(c) ==
  /\ sCalls[c].pc = "saving"
  /\ sCalls' = [sCalls EXCEPT ![c].pc = "threw", ![c].reason = "save"]
  /\ UNCHANGED <<sMem, sDisk, sSends, otherThanChat>>

\* The caller has its answer or its error.
SendSettled(c) ==
  /\ sCalls[c].pc \in {"returned", "threw"}
  /\ sCalls' = [sCalls EXCEPT ![c] = IdleSend]
  /\ UNCHANGED <<sMem, sDisk, sSends, otherThanChat>>

ChatNext ==
  \/ \E c \in SendCalls, providerId \in {"null", "openai"} :
       SendMessage(c, providerId)
  \/ \E c \in SendCalls, extracted \in Extracts : LlmAnswers(c, extracted)
  \/ \E c \in SendCalls : LlmFails(c)
  \/ \E c \in SendCalls : SessionSaved(c)
  \/ \E c \in SendCalls : SaveFails(c)
  \/ \E c \in SendCalls : SendSettled(c)

ChatSpec == ChatInit /\ [][ChatNext]_vars

\* How often the stage is in the list.
TimesIn(stages, stage) ==
  Cardinality({k \in 1..Len(stages) : stages[k] = stage})

\* The step moves the stage to its successor, in a call whose response
\* carried an extracted configuration, and leaves the stage it left once in
\* completedStages.
StageStepIsLegal ==
  /\ sMem.currentStage # "generation"
  /\ StageIndex(sMem'.currentStage) = StageIndex(sMem.currentStage) + 1
  /\ \E c \in SendCalls, extracted \in Extracts :
       /\ extracted.present
       /\ sCalls[c].pc = "llm"
       /\ sMem' = AfterResponse(sMem, sCalls[c], extracted)
  /\ TimesIn(sMem'.completedStages, sMem.currentStage) = 1

\* C29: the current stage of a session changes only to the immediate
\* successor in the order of STAGES (one step per message, never back,
\* none skipped, nothing follows generation), only when the response
\* carried an extracted configuration, and the stage that was left is then
\* in completedStages exactly once.
C29_StageOnlyStepsForward ==
  [][sMem'.currentStage # sMem.currentStage => StageStepIsLegal]_vars

\* The same for calls of sendMessage none of which starts before the one
\* before it has ended.
C29_OneCallAtATime ==
  [][(/\ sMem'.currentStage # sMem.currentStage
      /\ \A c \in SendCalls : ~sCalls[c].overlapped) => StageStepIsLegal]_vars

\* C30: when processMessage fails during sendMessage, sendMessage throws
\* and the session is as it was before the call: the session of the Map
\* is the one the call found (no message more, updatedAt, config and stage
\* as they were) and equals the session saved last.
C30_FailedSendLeavesSession ==
  [][\A c \in SendCalls :
       (/\ sCalls[c].pc = "llm"
        /\ sCalls'[c].pc = "threw"
        /\ ~sCalls[c].overlapped) =>
         /\ sMem' = sCalls[c].before
         /\ sMem' = sDisk']_vars

====
